---------------------------- MODULE Spec2Model ----------------------------
(***************************************************************************)
(* A model of the jar-viewer MCP service (JarViewerService and its helper  *)
(* functions).  Text is modelled as sequences of one-character strings so  *)
(* that normalisation, splitting, trimming and matching are computed the   *)
(* way the code computes them.  A multi-line text is a sequence of lines;  *)
(* the empty text is the empty sequence of lines.                          *)
(***************************************************************************)
EXTENDS Integers, Sequences, FiniteSets, TLC

(***************************************************************************)
(* Character and string helpers (JavaScript String methods).               *)
(***************************************************************************)

\* String.prototype.toLowerCase, character by character.
Uppers ==
  <<"A", "B", "C", "D", "E", "F", "G", "H", "I", "J", "K", "L", "M", "N", "O",
    "P", "Q", "R", "S", "T", "U", "V", "W", "X", "Y", "Z">>

Lowers ==
  <<"a", "b", "c", "d", "e", "f", "g", "h", "i", "j", "k", "l", "m", "n", "o",
    "p", "q", "r", "s", "t", "u", "v", "w", "x", "y", "z">>

LowerChar(c) ==
  IF \E i \in 1..Len(Uppers) : Uppers[i] = c
    THEN Lowers[CHOOSE i \in 1..Len(Uppers) : Uppers[i] = c]
    ELSE c

ToLowerCase(s) == [i \in 1..Len(s) |-> LowerChar(s[i])]

IsSpace(c) == c \in {" ", "\t", "\n", "\r"}

RECURSIVE TrimStart(_)
TrimStart(s) ==
  IF s # <<>> /\ IsSpace(Head(s)) THEN TrimStart(Tail(s)) ELSE s

RECURSIVE TrimEnd(_)
TrimEnd(s) ==
  IF s # <<>> /\ IsSpace(s[Len(s)]) THEN TrimEnd(SubSeq(s, 1, Len(s) - 1)) ELSE s

\* String.prototype.trim
Trim(s) == TrimEnd(TrimStart(s))

\* String.prototype.startsWith / endsWith
StartsWith(s, p) == Len(p) <= Len(s) /\ SubSeq(s, 1, Len(p)) = p

EndsWith(s, p) == Len(p) <= Len(s) /\ SubSeq(s, Len(s) - Len(p) + 1, Len(s)) = p

\* String.prototype.indexOf, 1-based; 0 when sub does not occur.
IndexOf(s, sub) ==
  LET hits == {i \in 1..(Len(s) - Len(sub) + 1) : SubSeq(s, i, i + Len(sub) - 1) = sub}
  IN IF hits = {} THEN 0 ELSE CHOOSE i \in hits : \A j \in hits : i <= j

\* String.prototype.includes
Includes(s, sub) == sub = <<>> \/ IndexOf(s, sub) # 0

\* Largest index of character c in s; 0 when absent.
LastIndexOfChar(s, c) ==
  LET hits == {i \in 1..Len(s) : s[i] = c}
  IN IF hits = {} THEN 0 ELSE CHOOSE i \in hits : \A j \in hits : i >= j

\* String.prototype.split on a one-character separator: always at least one part.
RECURSIVE SplitFrom(_, _, _)
SplitFrom(s, sep, cur) ==
  IF s = <<>> THEN <<cur>>
  ELSE IF Head(s) = sep THEN <<cur>> \o SplitFrom(Tail(s), sep, <<>>)
  ELSE SplitFrom(Tail(s), sep, Append(cur, Head(s)))

Split(s, sep) == SplitFrom(s, sep, <<>>)

\* Array.prototype.join
RECURSIVE Join(_, _)
Join(parts, sep) ==
  IF parts = <<>> THEN <<>>
  ELSE IF Len(parts) = 1 THEN parts[1]
  ELSE parts[1] \o sep \o Join(Tail(parts), sep)

\* Collation rank of a character, standing in for String.prototype.localeCompare:
\* whitespace, then punctuation and symbols, then digits, then letters.  The
\* names that get sorted use one letter case only, where comparing character by
\* character with this rank agrees with the locale comparison.
Collation ==
  <<"\t", "\n", "\r", " ", "_", "-", ",", ":", ".", "\"", "{", "}", "*", "/",
    "\\", "|", "$", "0", "1", "2", "3", "4", "5", "6", "7", "8", "9",
    "a", "A", "b", "B", "c", "C", "d", "e", "f", "F", "g", "G", "h", "H", "i",
    "j", "k", "K", "l", "m", "n", "o", "p", "q", "r", "s", "t", "u", "v", "w", "x",
    "y", "z", "Z">>

\* U+212A KELVIN SIGN, one character: it is canonically equivalent to the
\* letter K (U+004B), and localeCompare returns 0 for canonically equivalent
\* strings.
KelvinSign == "U+212A"

Canonical(c) == IF c = KelvinSign THEN "K" ELSE c

Rank(c) == CHOOSE i \in 1..Len(Collation) : Collation[i] = Canonical(c)

RECURSIVE LocaleLess(_, _)
LocaleLess(a, b) ==
  IF b = <<>> THEN FALSE
  ELSE IF a = <<>> THEN TRUE
  ELSE IF Canonical(Head(a)) = Canonical(Head(b)) THEN LocaleLess(Tail(a), Tail(b))
  ELSE Rank(Head(a)) < Rank(Head(b))

\* localeCompare(a, b) <= 0
LocaleLeq(a, b) == ~LocaleLess(b, a)


(***************************************************************************)
(* node:path on POSIX paths.                                               *)
(***************************************************************************)

\* The current working directory of the server process.
Cwd == <<"/", "w">>

DropEmpty(parts) == SelectSeq(parts, LAMBDA x : x # <<>>)

\* Resolve "." and ".." segments left to right.
RECURSIVE ResolveSegments(_, _)
ResolveSegments(parts, acc) ==
  IF parts = <<>> THEN acc
  ELSE IF Head(parts) = <<".">> THEN ResolveSegments(Tail(parts), acc)
  ELSE IF Head(parts) = <<".", ".">>
    THEN ResolveSegments(Tail(parts),
                         IF acc = <<>> THEN acc ELSE SubSeq(acc, 1, Len(acc) - 1))
  ELSE ResolveSegments(Tail(parts), Append(acc, Head(parts)))

\* path.resolve(p): absolute, normalised, no trailing separator.
PathResolve(p) ==
  LET abs  == IF p # <<>> /\ Head(p) = "/" THEN p ELSE Cwd \o <<"/">> \o p
      segs == ResolveSegments(DropEmpty(Split(abs, "/")), <<>>)
  IN <<"/">> \o Join(segs, <<"/">>)

\* A parent function under which every directory is its own parent.
SameDir(p) == p

\* path.dirname of an absolute normalised path; the root is its own parent.
PathDirname(p) ==
  LET i == LastIndexOfChar(p, "/")
  IN IF i <= 1 THEN <<"/">> ELSE SubSeq(p, 1, i - 1)

\* path.join(dir, name) for an absolute normalised dir and a plain name.
PathJoin(dir, name) ==
  IF dir = <<"/">> THEN dir \o name ELSE dir \o <<"/">> \o name

\* The last path segment.
LastSegment(p) == SubSeq(p, LastIndexOfChar(p, "/") + 1, Len(p))

\* path.extname(p): from the last "." of the last segment, "" when that segment
\* has no "." or only a leading one.
PathExtname(p) ==
  LET base == LastSegment(p)
      d    == LastIndexOfChar(base, ".")
  IN IF d <= 1 \/ base = <<".", ".">> THEN <<>> ELSE SubSeq(base, d, Len(base))

\* path.basename(p, ext): the last segment without the suffix ext.
PathBasename(p, ext) ==
  LET base == LastSegment(p)
  IN IF ext # <<>> /\ base # ext /\ EndsWith(base, ext)
       THEN SubSeq(base, 1, Len(base) - Len(ext))
       ELSE base

DotClass == <<".", "c", "l", "a", "s", "s">>
DotJava  == <<".", "j", "a", "v", "a">>
DotJar   == <<".", "j", "a", "r">>

(***************************************************************************)
(* Program constants.                                                      *)
(***************************************************************************)
MAX_LIST_ENTRIES == 100
MAX_TEXT_BYTES == 200000

(***************************************************************************)
(* Entry-path helpers.                                                     *)
(***************************************************************************)

RECURSIVE StripLeadingSeparators(_)
StripLeadingSeparators(p) ==
  IF p # <<>> /\ Head(p) \in {"/", "\\"} THEN StripLeadingSeparators(Tail(p)) ELSE p

RECURSIVE CollapseSlashes(_)
CollapseSlashes(p) ==
  IF Len(p) < 2 THEN p
  ELSE IF p[1] = "/" /\ p[2] = "/" THEN CollapseSlashes(Tail(p))
  ELSE <<Head(p)>> \o CollapseSlashes(Tail(p))

\* normalizeJarEntry: strip leading separators, turn "\" into "/", collapse
\* repeated "/", drop one trailing "/".
normalizeJarEntry(p) ==
  LET a == StripLeadingSeparators(p)
      b == [i \in 1..Len(a) |-> IF a[i] = "\\" THEN "/" ELSE a[i]]
      c == CollapseSlashes(b)
  IN IF c # <<>> /\ c[Len(c)] = "/" THEN SubSeq(c, 1, Len(c) - 1) ELSE c

\* entryPath.replace(/\.class$/i, replacement)
ReplaceClassSuffix(p, replacement) ==
  IF EndsWith(ToLowerCase(p), DotClass)
    THEN SubSeq(p, 1, Len(p) - Len(DotClass)) \o replacement
    ELSE p

RECURSIVE StripLeadingDots(_)
StripLeadingDots(p) ==
  IF p # <<>> /\ Head(p) = "." THEN StripLeadingDots(Tail(p)) ELSE p

\* classNameFromEntry: the fully-qualified class name of a .class entry.
classNameFromEntry(entryPath) ==
  LET a == ReplaceClassSuffix(normalizeJarEntry(entryPath), <<>>)
      b == [i \in 1..Len(a) |-> IF a[i] = "/" THEN "." ELSE a[i]]
  IN StripLeadingDots(b)

\* sourceJarPathFor: "{dir}/{base}-sources.jar" beside the archive.
sourceJarPathFor(jarPath) ==
  PathJoin(PathDirname(jarPath),
           PathBasename(jarPath, DotJar)
             \o <<"-", "s", "o", "u", "r", "c", "e", "s">> \o DotJar)

\* limitText: a text is modelled by its identity and its length in characters;
\* a text over the limit is cut to the limit and marked.
limitText(text) ==
  IF text.len <= MAX_TEXT_BYTES
    THEN [text |-> [id |-> text.id, len |-> text.len], truncated |-> FALSE]
    ELSE [text |-> [id |-> text.id, len |-> MAX_TEXT_BYTES], truncated |-> TRUE]

(***************************************************************************)
(* The archive index: listJarEntries.  An archive is the sequence of its   *)
(* entries in central-directory order; a directory entry's name ends "/".  *)
(***************************************************************************)

RECURSIVE StripLeadingSlashes(_)
StripLeadingSlashes(p) ==
  IF p # <<>> /\ Head(p) = "/" THEN StripLeadingSlashes(Tail(p)) ELSE p

\* One iteration of the loop of listJarEntries over zip.getEntries(): the entry
\* is skipped, names a directory by its first segment, or is a leaf.
EntryRow(entry, normalizedInner) ==
  LET name     == normalizeJarEntry(entry.entryName)
      skip     == \/ name = <<>>
                  \/ /\ normalizedInner # <<>>
                     /\ \/ name = normalizedInner
                        \/ ~StartsWith(name, normalizedInner \o <<"/">>)
      relative == IF normalizedInner # <<>>
                    THEN StripLeadingSlashes(
                           SubSeq(name, Len(normalizedInner) + 1, Len(name)))
                    ELSE name
      parts    == Split(relative, "/")
      head     == parts[1]
  IN IF skip \/ relative = <<>> \/ head = <<>>
       THEN [kind |-> "skip", path |-> <<>>, directory |-> FALSE,
             size |-> 0, compressedSize |-> 0]
     ELSE IF Len(parts) > 1
       THEN [kind |-> "directory", path |-> head \o <<"/">>, directory |-> TRUE,
             size |-> 0, compressedSize |-> 0]
     ELSE [kind |-> "file", path |-> head, directory |-> entry.isDirectory,
           size |-> entry.size, compressedSize |-> entry.compressedSize]

\* The rows of the entries when the prefix is not applied.
EntryRowsUnfiltered(zipEntries, normalizedInner) ==
  [i \in 1..Len(zipEntries) |-> EntryRow(zipEntries[i], <<>>)] \o <<>>

\* The rows of all entries, in archive order.
EntryRows(zipEntries, normalizedInner) ==
  [i \in 1..Len(zipEntries) |-> EntryRow(zipEntries[i], normalizedInner)] \o <<>>

Summary(row) ==
  [path |-> row.path, directory |-> row.directory, size |-> row.size,
   compressedSize |-> row.compressedSize]

\* The keys of the directories Map in insertion order (a key is inserted by the
\* first entry that names it), as the summaries listJarEntries makes of them.
DirectorySummaries(rows) ==
  LET firsts == SelectSeq([i \in 1..Len(rows) |-> i],
                  LAMBDA i : /\ rows[i].kind = "directory"
                             /\ \A j \in 1..(i - 1) :
                                  ~(rows[j].kind = "directory" /\ rows[j].path = rows[i].path))
  IN [k \in 1..Len(firsts) |-> Summary(rows[firsts[k]])]

\* The files array: the leaf summaries in archive order.
FileSummaries(rows) ==
  LET leaves == SelectSeq(rows, LAMBDA row : row.kind = "file")
  IN [k \in 1..Len(leaves) |-> Summary(leaves[k])]

\* Array.prototype.sort((a, b) => a.path.localeCompare(b.path)): a stable sort.
SortByPath(items) == SortSeq(items, LAMBDA a, b : LocaleLess(a.path, b.path))

\* A slice that keeps every item.
TakeAll(items, n) == items

\* entries.slice(0, n)
Take(items, n) == SubSeq(items, 1, IF Len(items) < n THEN Len(items) ELSE n)

\* The result object of listJarEntries.
ListResult(resolvedJar, normalizedInner, entries) ==
  [jarPath   |-> resolvedJar,
   innerPath |-> IF normalizedInner # <<>> THEN normalizedInner ELSE <<"/">>,
   total     |-> Len(entries),
   truncated |-> Len(entries) > MAX_LIST_ENTRIES,
   entries   |-> Take(entries, MAX_LIST_ENTRIES)]

\* [...directories, ...files].sort(...)
MergedEntries(rows) == SortByPath(DirectorySummaries(rows) \o FileSummaries(rows))

\* The body of listJarEntries once the archive is open.
ListArchive(resolvedJar, zipEntries, innerPath) ==
  ListResult(resolvedJar, normalizeJarEntry(innerPath),
             MergedEntries(EntryRows(zipEntries, normalizeJarEntry(innerPath))))

(***************************************************************************)
(* The file system the service reads.  Directories and archives are fixed; *)
(* the build markers and the Gradle wrapper present are the state variable *)
(* projectFiles.  A nullable value is a sequence of length 0 (null) or 1.  *)
(***************************************************************************)

Null == <<>>
Some(x) == <<x>>

DirRoot == <<"/">>
DirW    == <<"/", "w">>
DirM    == <<"/", "w", "/", "m">>
DirMS   == <<"/", "w", "/", "m", "/", "s">>
DirG    == <<"/", "w", "/", "g">>
DirR    == <<"/", "r">>

Dirs == {DirRoot, DirW, DirM, DirMS, DirG, DirR}

PomXml            == <<"p","o","m",".","x","m","l">>
BuildGradle       == <<"b","u","i","l","d",".","g","r","a","d","l","e">>
BuildGradleKts    == BuildGradle \o <<".","k","t","s">>
SettingsGradle    == <<"s","e","t","t","i","n","g","s",".","g","r","a","d","l","e">>
SettingsGradleKts == SettingsGradle \o <<".","k","t","s">>
Gradlew           == <<"g","r","a","d","l","e","w">>

LibJar     == <<"/","r","/","l",".","j","a","r">>
LibSources == <<"/","r","/","l","-","s","o","u","r","c","e","s",".","j","a","r">>
AppJar     == <<"/","w","/","m","/","a",".","j","a","r">>
NoJar      == <<"/","r","/","x",".","j","a","r">>

Archives == {LibJar, LibSources, AppJar}

ZipFile(name, len) ==
  [entryName |-> name, isDirectory |-> FALSE, size |-> len, compressedSize |-> len,
   data |-> [id |-> name, len |-> len]]

ZipDir(name) ==
  [entryName |-> name, isDirectory |-> TRUE, size |-> 0, compressedSize |-> 0,
   data |-> [id |-> name, len |-> 0]]

\* new AdmZip(jarPath).getEntries()
ZipEntries(jarPath) ==
  CASE jarPath = LibJar ->
         << ZipFile(<<"F">> \o DotClass, 9),
            ZipDir(<<"p", "/">>),
            ZipFile(<<"p", "/", "G">> \o DotClass, 7),
            ZipFile(<<"r", ".", "t", "x", "t">>, 3) >>
    [] jarPath = LibSources ->
         << ZipFile(<<"F">> \o DotJava, 5),
            ZipFile(<<"H">> \o DotJava, 4) >>
    [] jarPath = AppJar ->
         << ZipFile(<<"F">> \o DotClass, 8),
            ZipFile(<<"r", ".", "t", "x", "t">>, MAX_TEXT_BYTES + 1) >>
    [] OTHER -> <<>>

\* fileExists(filePath): fs.access(filePath, R_OK) succeeds.
fileExists(filePath, present) == filePath \in Archives \cup Dirs \cup present

\* (await fs.stat(p))?.isFile()
IsFile(p, present) == p \in Archives \cup present

(***************************************************************************)
(* The project type detector.                                              *)
(***************************************************************************)

mavenMarkers  == <<PomXml>>
gradleMarkers == <<BuildGradle, BuildGradleKts, SettingsGradle, SettingsGradleKts>>

\* A marker search that reports every marker asked for, present or not.
AllMarkers(dir, markers, present) == markers

\* findProjectMarkers: the markers that exist in dir, in the order asked.
findProjectMarkers(dir, markers, present) ==
  SelectSeq(markers, LAMBDA marker : fileExists(PathJoin(dir, marker), present))

\* One iteration of the loop with the Gradle markers looked for first.
DetectAtGradleFirst(current, present) ==
  LET foundMaven  == findProjectMarkers(current, mavenMarkers, present)
      foundGradle == findProjectMarkers(current, gradleMarkers, present)
  IN IF Len(foundGradle) > 0
       THEN Some([type |-> "gradle", root |-> Some(current), markers |-> foundGradle])
     ELSE IF Len(foundMaven) > 0
       THEN Some([type |-> "maven", root |-> Some(current), markers |-> foundMaven])
     ELSE Null

\* One iteration of the while loop of detectProjectType at directory current:
\* the detection it returns, or null when the loop goes on.
DetectAt(current, present) ==
  LET foundMaven  == findProjectMarkers(current, mavenMarkers, present)
      foundGradle == findProjectMarkers(current, gradleMarkers, present)
  IN IF Len(foundMaven) > 0
       THEN Some([type |-> "maven", root |-> Some(current), markers |-> foundMaven])
     ELSE IF Len(foundGradle) > 0
       THEN Some([type |-> "gradle", root |-> Some(current), markers |-> foundGradle])
     ELSE Null

\* The while loop of detectProjectType, from directory current upward.
RECURSIVE DetectFrom(_, _)
DetectFrom(current, present) ==
  LET foundMaven  == findProjectMarkers(current, mavenMarkers, present)
      foundGradle == findProjectMarkers(current, gradleMarkers, present)
      parent      == PathDirname(current)
  IN IF Len(foundMaven) > 0
       THEN [type |-> "maven", root |-> Some(current), markers |-> foundMaven]
     ELSE IF Len(foundGradle) > 0
       THEN [type |-> "gradle", root |-> Some(current), markers |-> foundGradle]
     ELSE IF parent = current
       THEN [type |-> "native", root |-> Null, markers |-> <<>>]
     ELSE DetectFrom(parent, present)

\* A detector that finds a Gradle project wherever it is asked.
AlwaysGradle(startPath, present) ==
  [type |-> "gradle", root |-> Some(PathResolve(startPath)), markers |-> <<BuildGradle>>]

detectProjectType(startPath, present) ==
  LET resolved == PathResolve(startPath)
  IN DetectFrom(IF IsFile(resolved, present) THEN PathDirname(resolved) ELSE resolved,
                present)

\* A requirement that lets every command run in every project.
AnyProject(command) == "any"

\* requiredProjectTypeForCommand: by the lower-cased basename of the command.
requiredProjectTypeForCommand(command) ==
  LET normalized == ToLowerCase(LastSegment(command))
  IN IF normalized \in {<<"m","v","n">>, <<"m","v","n",".","c","m","d">>}
       THEN "maven"
     ELSE IF normalized \in {<<"g","r","a","d","l","e">>,
                             <<"g","r","a","d","l","e",".","b","a","t">>,
                             Gradlew,
                             <<"g","r","a","d","l","e","w",".","b","a","t">>}
       THEN "gradle"
     ELSE "any"

\* The check runCommand makes before it spawns: the detection of the project
\* context, and whether the command may run there.
CommandCheck(command, projectContext, present) ==
  LET project      == detectProjectType(projectContext, present)
      requiredType == requiredProjectTypeForCommand(command)
  IN [project  |-> project,
      required |-> requiredType,
      mismatch |-> requiredType # "any" /\ project.type # requiredType]

\* options.projectPath ?? options.cwd ?? process.cwd()
ProjectContext(projectPath, cwd) ==
  IF projectPath # Null THEN projectPath[1]
  ELSE IF cwd # Null THEN cwd[1]
  ELSE Cwd

\* runCommand up to the spawn: the mismatch error it throws, or the spawn.
\* The error is the message template with the values interpolated into it.
runCommand(command, projectPath, cwd, present) ==
  LET check == CommandCheck(command, ProjectContext(projectPath, cwd), present)
  IN IF check.mismatch
       THEN [spawned |-> FALSE,
             error   |-> Some([msg      |-> "Command requires another project type",
                               command  |-> command,
                               required |-> check.required,
                               detected |-> check.project.type,
                               root     |-> check.project.root])]
       ELSE [spawned |-> TRUE, error |-> Null]

(***************************************************************************)
(* Results and errors.  An error is the message template the code throws   *)
(* with the values interpolated into it (an exit code, captured output).   *)
(***************************************************************************)

Failure(msg, code, output) ==
  [ok |-> FALSE, error |-> [msg |-> msg, code |-> code, output |-> output]]

Success(value) == [ok |-> TRUE, value |-> value]

EmptyText == [id |-> <<>>, len |-> 0]

\* a || b on texts: the first non-empty one.
OrElse(a, b) == IF a.len > 0 THEN a ELSE b

(***************************************************************************)
(* The source attachment resolver.                                         *)
(***************************************************************************)

\* zip.getEntry(name): the entry with exactly that name.
GetEntry(jarPath, name) ==
  LET entries == ZipEntries(jarPath)
      hits    == {i \in 1..Len(entries) : entries[i].entryName = name}
  IN IF hits = {} THEN Null ELSE Some(entries[CHOOSE i \in hits : \A j \in hits : i <= j])

\* readEntryTextFromJar: the text of a file entry, null for a missing entry or
\* a directory.
readEntryTextFromJar(jarPath, entryPath) ==
  LET entry == GetEntry(jarPath, normalizeJarEntry(entryPath))
  IN IF entry = Null \/ entry[1].isDirectory
       THEN Null
       ELSE Some(limitText(entry[1].data).text)

\* A resolver that never finds an attached source: with it in place of
\* tryReadFromSourceJar every .class entry reaches the decompiler.
NoAttachedSource(jarPath, entryPath, present) == Null

\* tryReadFromSourceJar: the mapped .java entry of the sibling source archive.
tryReadFromSourceJar(jarPath, entryPath, present) ==
  LET sourceJar == sourceJarPathFor(jarPath)
      javaEntry == ReplaceClassSuffix(entryPath, DotJava)
      content   == readEntryTextFromJar(sourceJar, javaEntry)
  IN IF ~fileExists(sourceJar, present) THEN Null
     ELSE IF content = Null THEN Null
     ELSE Some([content   |-> [header |-> "// Source: Attached",
                               names  |-> LastSegment(sourceJar),
                               body   |-> content[1]],
                entryPath |-> javaEntry,
                sourceJar |-> Some(sourceJar),
                source    |-> "source"])

\* What a spawned process can do: fail to launch (ENOENT or another launch
\* error) or close with an exit code and captured output.
ErrText == [id |-> <<"e">>, len |-> 1]
OutText == [id |-> <<"o">>, len |-> 1]

ProcessOutcomes ==
  {[kind |-> "enoent"], [kind |-> "error"]}
    \cup {[kind |-> "close", code |-> c, stdout |-> o.out, stderr |-> o.err] :
            c \in {0, 1},
            o \in {[out |-> EmptyText, err |-> EmptyText],
                   [out |-> OutText, err |-> EmptyText],
                   [out |-> OutText, err |-> ErrText]}}

\* What the decompiler left at outputJavaPath: nothing, an empty file, a source.
DecompiledFiles == {Null, Some(EmptyText), Some([id |-> <<"j">>, len |-> 4])}

\* A decompiler step that passes every launch error on as it came.
AfterCfrNoRemap(entryPath, proc, javaSource) ==
  IF proc.kind \in {"enoent", "error"}
    THEN [settled |-> TRUE, outcome |-> Failure("spawn error", Null, Null)]
  ELSE IF proc.code # 0
    THEN [settled |-> TRUE,
          outcome |-> Failure("CFR exited with code", Some(proc.code),
                              Some(OrElse(proc.stderr, proc.stdout)))]
  ELSE IF javaSource = Null \/ javaSource[1].len = 0
    THEN [settled |-> FALSE, outcome |-> Failure("pending", Null, Null)]
  ELSE [settled |-> TRUE,
        outcome |-> Success([content   |-> [header |-> "// Decompiled via CFR",
                                            names  |-> <<>>,
                                            body   |-> javaSource[1]],
                             entryPath |-> ReplaceClassSuffix(entryPath, DotJava),
                             sourceJar |-> Null,
                             source    |-> "decompiled"])]

\* The part of decompileWithCfr after the java process ended, up to the point
\* where it either settles or has to ask javap: "settled" carries the outcome.
AfterCfr(entryPath, proc, javaSource) ==
  IF proc.kind = "enoent"
    THEN [settled |-> TRUE,
          outcome |-> Failure("Java runtime (java) was not found on PATH.", Null, Null)]
  ELSE IF proc.kind = "error"
    THEN [settled |-> TRUE, outcome |-> Failure("spawn error", Null, Null)]
  ELSE IF proc.code # 0
    THEN [settled |-> TRUE,
          outcome |-> Failure("CFR exited with code", Some(proc.code),
                              Some(OrElse(proc.stderr, proc.stdout)))]
  ELSE IF javaSource = Null \/ javaSource[1].len = 0
    THEN [settled |-> FALSE, outcome |-> Failure("pending", Null, Null)]
  ELSE [settled |-> TRUE,
        outcome |-> Success([content   |-> [header |-> "// Decompiled via CFR",
                                            names  |-> <<>>,
                                            body   |-> javaSource[1]],
                             entryPath |-> ReplaceClassSuffix(entryPath, DotJava),
                             sourceJar |-> Null,
                             source    |-> "decompiled"])]

\* tryJavapSignature once the javap process ended: its output, or null.
JavapSignature(proc) ==
  IF proc.kind # "close" THEN Null
  ELSE IF proc.code # 0 THEN Null
  ELSE LET text == OrElse(proc.stdout, proc.stderr)
       IN IF text.len > 0 THEN Some(text) ELSE Null

\* The end of decompileWithCfr after tryJavapSignature returned.
AfterJavap(entryPath, signature) ==
  IF signature # Null
    THEN Success([content   |-> [header |-> "// javap signature fallback",
                                 names  |-> <<>>,
                                 body   |-> signature[1]],
                  entryPath |-> entryPath,
                  sourceJar |-> Null,
                  source    |-> "summary"])
    ELSE Failure("CFR did not produce output", Null, Null)

(***************************************************************************)
(* The dependency scanner: option normalisation, the cache key, the query  *)
(* filter and the two output parsers.                                      *)
(***************************************************************************)

\* new Set(values): the distinct values in first-seen order.
RECURSIVE Distinct(_, _)
Distinct(values, acc) ==
  IF values = <<>> THEN acc
  ELSE Distinct(Tail(values),
                IF \E i \in 1..Len(acc) : acc[i] = Head(values)
                  THEN acc ELSE Append(acc, Head(values)))

RECURSIVE InsertName(_, _)
InsertName(sorted, v) ==
  IF sorted = <<>> THEN <<v>>
  ELSE IF LocaleLeq(Head(sorted), v) THEN <<Head(sorted)>> \o InsertName(Tail(sorted), v)
  ELSE <<v>> \o sorted

RECURSIVE SortNames(_, _)
SortNames(values, sorted) ==
  IF values = <<>> THEN sorted
  ELSE SortNames(Tail(values), InsertName(sorted, Head(values)))

\* normalizeConfigurations: trimmed, blanks dropped, distinct, sorted.  An absent
\* list is the empty list.
normalizeConfigurations(configurations) ==
  LET trimmed == [i \in 1..Len(configurations) |-> Trim(configurations[i])]
      kept    == SelectSeq(trimmed, LAMBDA value : Len(value) > 0)
  IN SortNames(Distinct(kept, <<>>), <<>>)

\* normalizeQuery: null for an absent or blank query, else trimmed lower case.
normalizeQuery(value) ==
  IF value = <<>> THEN Null
  ELSE IF Trim(value) = <<>> THEN Null
  ELSE Some(ToLowerCase(Trim(value)))

\* filterDependenciesByQuery
filterDependenciesByQuery(dependencies, query) ==
  LET normalized == normalizeQuery(query)
  IN IF normalized = Null THEN dependencies
     ELSE SelectSeq(dependencies,
            LAMBDA dep :
              \/ Includes(ToLowerCase(dep.groupId \o <<":">> \o dep.artifactId),
                          normalized[1])
              \/ Includes(ToLowerCase(dep.path), normalized[1]))

\* A cache key that leaves the configurations filter out.
KeyWithoutConfigurations(projectRoot, excludeTransitive, configurations, includeLogTail) ==
  [projectRoot       |-> projectRoot,
   excludeTransitive |-> excludeTransitive,
   configurations    |-> <<>>,
   includeLogTail    |-> includeLogTail]

\* buildDependencyCacheKey: the JSON text of this object; JSON.stringify is
\* one-to-one on such objects, so the key is modelled by the object itself.
buildDependencyCacheKey(projectRoot, excludeTransitive, configurations, includeLogTail) ==
  [projectRoot       |-> projectRoot,
   excludeTransitive |-> excludeTransitive,
   configurations    |-> normalizeConfigurations(configurations),
   includeLogTail    |-> includeLogTail]

\* escapeGroovyString: "\" becomes "\\", then '"' becomes '\"'.
RECURSIVE escapeGroovyString(_)
escapeGroovyString(value) ==
  IF value = <<>> THEN <<>>
  ELSE IF Head(value) = "\\" THEN <<"\\", "\\">> \o escapeGroovyString(Tail(value))
  ELSE IF Head(value) = "\"" THEN <<"\\", "\"">> \o escapeGroovyString(Tail(value))
  ELSE <<Head(value)>> \o escapeGroovyString(Tail(value))

\* formatGroovyStringList: the Groovy list literal of the normalised names.
formatGroovyStringList(values) ==
  LET normalized == normalizeConfigurations(values)
      items == [i \in 1..Len(normalized) |->
                  <<"\"">> \o escapeGroovyString(normalized[i]) \o <<"\"">>]
  IN IF Len(normalized) = 0 THEN <<"[", "]">>
     ELSE <<"[">> \o Join(items, <<",", " ">>) \o <<"]">>

\* rawLine.replace(/^\[INFO\]\s+/, "")
StripInfoPrefix(rawLine) ==
  LET tag == <<"[", "I", "N", "F", "O", "]">>
  IN IF StartsWith(rawLine, tag) /\ Len(rawLine) > Len(tag) /\ IsSpace(rawLine[Len(tag) + 1])
       THEN TrimStart(SubSeq(rawLine, Len(tag) + 1, Len(rawLine)))
       ELSE rawLine

\* The record parseMavenDependencyList pushes for one line, or null for a line
\* it skips.  The fields are popped from the right of line.split(":").
ParseMavenLine(rawLine) ==
  LET line  == Trim(StripInfoPrefix(rawLine))
      parts == Split(line, ":")
      n     == Len(parts)
      hasClassifier == n - 3 > 3
      m     == IF hasClassifier THEN n - 4 ELSE n - 3
  IN IF line = <<>> \/ ~Includes(line, <<":">>) THEN Null
     ELSE IF \/ StartsWith(line, <<"-", "-", "-">>)
             \/ StartsWith(line, <<"T","h","e"," ","f","o","l","l","o","w","i","n","g">>)
       THEN Null
     ELSE IF n < 5 THEN Null
     ELSE Some([groupId    |-> Join(SubSeq(parts, 1, m - 2), <<":">>),
                artifactId |-> parts[m - 1],
                type       |-> parts[m],
                classifier |-> IF hasClassifier THEN Some(parts[n - 3]) ELSE Null,
                version    |-> parts[n - 2],
                scope      |-> parts[n - 1],
                path       |-> parts[n]])

\* parseMavenDependencyList: one record per parsed line, in order.
RECURSIVE parseMavenDependencyList(_)
parseMavenDependencyList(lines) ==
  IF lines = <<>> THEN <<>>
  ELSE ParseMavenLine(Head(lines)) \o parseMavenDependencyList(Tail(lines))

\* parseGradleDependencyLine: configuration, file name and path of one line.
parseGradleDependencyLine(line) ==
  LET parts == Split(line, "|")
      configuration == Trim(parts[2])
      fileName      == Trim(parts[3])
      filePath      == Trim(Join(SubSeq(parts, 4, Len(parts)), <<"|">>))
  IN IF Len(parts) < 4 THEN Null
     ELSE IF configuration = <<>> \/ fileName = <<>> \/ filePath = <<>> THEN Null
     ELSE Some([configuration |-> configuration, fileName |-> fileName,
                filePath |-> filePath])

\* parseGradleCachePath: group, artifact and version are the three segments
\* after the cache-layout marker; the classifier is what follows
\* "artifact-version-" in the file's base name.
parseGradleCachePath(filePath, fileName) ==
  LET marker == <<"/","m","o","d","u","l","e","s","-","2","/",
                  "f","i","l","e","s","-","2",".","1","/">>
      markerIndex == IndexOf(filePath, marker)
      rest     == SubSeq(filePath, markerIndex + Len(marker), Len(filePath))
      parts    == Split(rest, "/")
      ext      == PathExtname(fileName)
      baseName == PathBasename(fileName, ext)
      prefix   == parts[2] \o <<"-">> \o parts[3] \o <<"-">>
  IN IF markerIndex = 0 THEN Null
     ELSE IF Len(parts) < 4 THEN Null
     ELSE IF parts[1] = <<>> \/ parts[2] = <<>> \/ parts[3] = <<>> THEN Null
     ELSE Some([groupId    |-> parts[1],
                artifactId |-> parts[2],
                version    |-> parts[3],
                classifier |-> IF StartsWith(baseName, prefix)
                                 THEN Some(SubSeq(baseName, Len(prefix) + 1, Len(baseName)))
                                 ELSE Null])

\* buildGradleDependencyInfo
buildGradleDependencyInfo(entry) ==
  LET ext      == PathExtname(entry.fileName)
      type     == IF Len(ext) > 1 THEN Tail(ext) ELSE <<"j", "a", "r">>
      baseName == PathBasename(entry.fileName, ext)
      coords   == parseGradleCachePath(entry.filePath, entry.fileName)
      unknown  == <<"u","n","k","n","o","w","n">>
  IN [groupId    |-> IF coords # Null THEN coords[1].groupId ELSE unknown,
      artifactId |-> IF coords # Null THEN coords[1].artifactId
                     ELSE IF baseName # <<>> THEN baseName ELSE unknown,
      type       |-> type,
      classifier |-> IF coords # Null THEN coords[1].classifier ELSE Null,
      version    |-> IF coords # Null THEN coords[1].version ELSE unknown,
      scope      |-> entry.configuration,
      path       |-> entry.filePath]

\* The loop of parseGradleDependencyOutput: the Map's values in insertion
\* order, a path already present being skipped.
RECURSIVE GradleRecords(_, _)
GradleRecords(lines, dependencies) ==
  IF lines = <<>> THEN dependencies
  ELSE
    LET line  == Trim(Head(lines))
        entry == parseGradleDependencyLine(line)
    IN IF ~StartsWith(line, <<"M","C","P","_","D","E","P","|">>)
         THEN GradleRecords(Tail(lines), dependencies)
       ELSE IF entry = Null THEN GradleRecords(Tail(lines), dependencies)
       ELSE IF \E i \in 1..Len(dependencies) : dependencies[i].path = entry[1].filePath
         THEN GradleRecords(Tail(lines), dependencies)
       ELSE GradleRecords(Tail(lines),
                          Append(dependencies, buildGradleDependencyInfo(entry[1])))

parseGradleDependencyOutput(lines) == GradleRecords(lines, <<>>)

(***************************************************************************)
(* The service as a state machine.  A request occupies a slot of req and is *)
(* split where it awaits an external process it spawned; under Spec one    *)
(* request is in flight at a time.                                         *)
(***************************************************************************)

VARIABLES
  projectFiles,     \* the build markers and wrappers present on disk
  dependencyCache,  \* JarViewerService.dependencyCache: key -> DependencyResult
  scratch,          \* the scratch directories that exist -> the files in each
  req,              \* the requests in flight, per slot
  populated,        \* history: scan identity -> the list its last resolution produced
  fnIn,             \* input of the function under test (function specifications)
  fnOut             \* its result

vars == <<projectFiles, dependencyCache, scratch, req, populated, fnIn, fnOut>>

\* Bounds of the model.
MaxCached == 2

IdleReq ==
  [op |-> "none", pc |-> "idle", args |-> <<>>, local |-> <<>>, tmp |-> Null,
   spawned |-> <<>>, outcome |-> Null, ghost |-> <<>>]

\* A launch that starts the command a second time.
SpawnTwice(spawned, command) == spawned \o <<command, command>>

\* spawn(command, args, ...): one more child process of the request.
Spawn(spawned, command) == Append(spawned, command)

\* A scratch location that is the same for every request.
MkdtempFixed(prefix, dirs) == [prefix |-> prefix, n |-> 1]

\* fsPromises.mkdtemp(prefix): a directory that did not exist.
Mkdtemp(prefix, dirs) ==
  LET free == {n \in 1..(Cardinality(dirs) + 1) : [prefix |-> prefix, n |-> n] \notin dirs}
  IN [prefix |-> prefix, n |-> CHOOSE n \in free : \A m \in free : n <= m]

\* The scratch map with directory dir created (empty).
WithDir(map, dir) ==
  [d \in DOMAIN map \cup {dir} |-> IF d = dir THEN {} ELSE map[d]]

\* The scratch map with file written into directory dir.
WithFile(map, dir, file) ==
  [d \in DOMAIN map |-> IF d = dir THEN map[d] \cup {file} ELSE map[d]]

\* A removal that leaves the directory in place.
KeepDir(map, dir) == map

\* fsPromises.rm(dir, {recursive: true, force: true})
RemoveDir(map, dir) == [d \in DOMAIN map \ {dir} |-> map[d]]

\* The request of slot s settles with outcome o.
Settle(s, o) ==
  req' = [req EXCEPT ![s].pc = "done", ![s].outcome = Some(o)]

(***************************************************************************)
(* list_jar_entries                                                        *)
(***************************************************************************)

JarInputs == {LibJar, AppJar, NoJar}

InnerInputs == {<<>>, <<"p">>, <<"/", "p", "/">>}

listJarEntries(jarPath, innerPath, present) ==
  LET resolvedJar == PathResolve(jarPath)
  IN IF ~fileExists(resolvedJar, present)
       THEN Failure("Jar file not found", Null, Null)
       ELSE Success(ListArchive(resolvedJar, ZipEntries(resolvedJar), innerPath))

ListEntries(s, jarPath, innerPath) ==
  /\ req[s].pc = "idle"
  /\ req' = [req EXCEPT ![s] =
               [IdleReq EXCEPT !.op = "list", !.pc = "done",
                               !.args = [jarPath |-> jarPath, innerPath |-> innerPath],
                               !.outcome = Some(listJarEntries(jarPath, innerPath,
                                                               projectFiles))]]
  /\ UNCHANGED <<projectFiles, dependencyCache, scratch, populated, fnIn, fnOut>>

(***************************************************************************)
(* read_jar_entry                                                          *)
(***************************************************************************)

EntryInputs ==
  { <<"F">> \o DotClass,
    <<"/", "p", "\\", "G">> \o DotClass,
    <<"H">> \o DotClass,
    <<"Z">> \o DotClass,
    <<"r", ".", "t", "x", "t">>,
    <<"z", ".", "t", "x", "t">>,
    <<"p">>,
    <<"/">> }

Java  == <<"j", "a", "v", "a">>
Javap == <<"j", "a", "v", "a", "p">>

CfrPrefix    == "jar-viewer-cfr-"
MavenPrefix  == "jar-viewer-mvn-"
GradlePrefix == "jar-viewer-gradle-"

\* readJarEntry up to the point where it settles or waits for the decompiler
\* process.  cfrFound: whether resolveCfrJar locates the bundled decompiler.
ReadBegin(s, jarPath, entryPath, cfrFound) ==
  LET resolvedJar     == PathResolve(jarPath)
      normalizedEntry == normalizeJarEntry(entryPath)
      ext             == ToLowerCase(PathExtname(normalizedEntry))
      resource        == readEntryTextFromJar(resolvedJar, normalizedEntry)
      sourceResult    == tryReadFromSourceJar(resolvedJar, normalizedEntry, projectFiles)
      outputDir       == Mkdtemp(CfrPrefix, DOMAIN scratch)
      check           == CommandCheck(Java, resolvedJar, projectFiles)
      started == [IdleReq EXCEPT !.op = "read",
                    !.args  = [jarPath |-> jarPath, entryPath |-> entryPath],
                    !.local = [jarPath   |-> resolvedJar,
                               entryPath |-> normalizedEntry,
                               className |-> classNameFromEntry(normalizedEntry),
                               cfr       |-> Null]]
      Done(o) == req' = [req EXCEPT ![s] =
                           [started EXCEPT !.pc = "done", !.outcome = Some(o)]]
  IN
  /\ req[s].pc = "idle"
  /\ IF ~fileExists(resolvedJar, projectFiles)
       THEN Done(Failure("Jar file not found", Null, Null)) /\ UNCHANGED scratch
     ELSE IF normalizedEntry = <<>>
       THEN Done(Failure("entryPath is required", Null, Null)) /\ UNCHANGED scratch
     ELSE IF ext # DotClass
       THEN /\ IF resource = Null
                 THEN Done(Failure("Entry not found", Null, Null))
                 ELSE Done(Success([content   |-> [header |-> "", names |-> <<>>,
                                                   body |-> resource[1]],
                                    entryPath |-> normalizedEntry,
                                    sourceJar |-> Null,
                                    source    |-> "resource"]))
            /\ UNCHANGED scratch
     ELSE IF sourceResult # Null
       THEN Done(Success(sourceResult[1])) /\ UNCHANGED scratch
     ELSE IF ~cfrFound
       THEN Done(Failure("Unable to locate CFR", Null, Null)) /\ UNCHANGED scratch
     ELSE IF check.mismatch
       THEN /\ Done(Failure("Command requires another project type", Null, Null))
            /\ UNCHANGED scratch
     ELSE /\ req' = [req EXCEPT ![s] =
                       [started EXCEPT !.pc = "cfr", !.tmp = Some(outputDir),
                                       !.spawned = Spawn(<<>>, Java)]]
          /\ scratch' = WithDir(scratch, outputDir)
  /\ UNCHANGED <<projectFiles, dependencyCache, populated, fnIn, fnOut>>

\* What the decompiler and javap can do for this request: neither produces
\* anything for a class the archive does not contain.
HasClass(r) == GetEntry(r.local.jarPath, r.local.entryPath) # Null

\* The java process of slot s ended: the rest of decompileWithCfr up to its
\* settling or the javap spawn.
CfrExit(s, proc, javaSource) ==
  LET r     == req[s]
      after == AfterCfr(r.local.entryPath, proc, javaSource)
      check == CommandCheck(Javap, r.local.jarPath, projectFiles)
      ran   == [proc |-> proc, javaSource |-> javaSource]
  IN
  /\ r.pc = "cfr"
  /\ javaSource # Null => HasClass(r) /\ proc.kind = "close"
  /\ IF after.settled
       THEN /\ req' = [req EXCEPT ![s].pc = "done", ![s].outcome = Some(after.outcome),
                                  ![s].local.cfr = Some(ran)]
            /\ scratch' = RemoveDir(scratch, r.tmp[1])
     ELSE IF check.mismatch
       \* tryJavapSignature absorbs the error: no signature
       THEN /\ req' = [req EXCEPT ![s].pc = "done", ![s].local.cfr = Some(ran),
                                  ![s].outcome =
                                    Some(AfterJavap(r.local.entryPath, Null))]
            /\ scratch' = RemoveDir(scratch, r.tmp[1])
     ELSE /\ req' = [req EXCEPT ![s].pc = "javap", ![s].local.cfr = Some(ran),
                                ![s].spawned = Spawn(@, Javap)]
          /\ UNCHANGED scratch
  /\ UNCHANGED <<projectFiles, dependencyCache, populated, fnIn, fnOut>>

\* The javap process of slot s ended: the rest of tryJavapSignature and of
\* decompileWithCfr, whose finally removes the output directory.
JavapExit(s, proc) ==
  LET r == req[s]
  IN
  /\ r.pc = "javap"
  /\ (proc.kind = "close" /\ proc.code = 0) => HasClass(r)
  /\ Settle(s, AfterJavap(r.local.entryPath, JavapSignature(proc)))
  /\ scratch' = RemoveDir(scratch, r.tmp[1])
  /\ UNCHANGED <<projectFiles, dependencyCache, populated, fnIn, fnOut>>

(***************************************************************************)
(* scan_project_dependencies                                               *)
(***************************************************************************)

Mvn    == <<"m", "v", "n">>
Gradle == <<"g", "r", "a", "d", "l", "e">>

\* Scan options the model draws from: the default, a configurations filter, the
\* same filter spelled differently, and both flags set.
OptionInputs ==
  { [excludeTransitive |-> FALSE, configurations |-> <<>>, includeLogTail |-> FALSE],
    [excludeTransitive |-> FALSE, configurations |-> << <<"c">> >>,
     includeLogTail |-> FALSE],
    [excludeTransitive |-> FALSE, configurations |-> << <<" ", "c">>, <<" ">>, <<"c">> >>,
     includeLogTail |-> FALSE],
    [excludeTransitive |-> TRUE, configurations |-> <<>>, includeLogTail |-> TRUE] }

ProjectInputs == {DirMS, DirG, DirR}

QueryInputs == {<<>>, <<" ", "b", " ">>, <<"g", ":", "A">>}

ScanInputs ==
  {[projectPath       |-> p,
    excludeTransitive |-> o.excludeTransitive,
    configurations    |-> o.configurations,
    includeLogTail    |-> o.includeLogTail,
    query             |-> q] : p \in ProjectInputs, o \in OptionInputs, q \in QueryInputs}

\* The identity of a scan as the specification describes it: the resolved
\* root, the two flags and the set of requested configuration names.
ScanIdentity(projectRoot, a) ==
  [projectRoot       |-> projectRoot,
   excludeTransitive |-> a.excludeTransitive,
   names             |-> {Trim(a.configurations[i]) : i \in 1..Len(a.configurations)}
                           \ {<<>>},
   includeLogTail    |-> a.includeLogTail]

\* A resolution that runs Maven in a Gradle project.
ResolveAsMaven(projectRoot, present) == [command |-> Mvn, shell |-> FALSE]

\* resolveGradleCommand: the project's wrapper when it exists, else gradle.
resolveGradleCommand(projectRoot, present) ==
  LET wrapperPath == PathJoin(projectRoot, Gradlew)
  IN IF fileExists(wrapperPath, present)
       THEN [command |-> wrapperPath, shell |-> FALSE]
       ELSE [command |-> Gradle, shell |-> FALSE]

\* The two holes of the init-script template of scanGradleDependencies.
GradleInitScript(configurations, excludeTransitive) ==
  [name              |-> "mcp-init.gradle",
   mcpAllowedConfigs |-> formatGroovyStringList(configurations),
   mcpExcludeTransitive |-> IF excludeTransitive THEN "true" ELSE "false"]

\* The object a cache hit returns.
CacheHitResult(cached, resolvedProject, projectRoot, projectType, query) ==
  [cached EXCEPT !.cached = TRUE,
                 !.projectPath = resolvedProject,
                 !.projectRoot = projectRoot,
                 !.projectType = projectType,
                 !.dependencies = filterDependenciesByQuery(cached.dependencies, query)]

\* A miss that reports itself as served from the cache.
CacheMissAsHit(result, query) ==
  [result EXCEPT !.cached = TRUE,
                 !.dependencies = filterDependenciesByQuery(result.dependencies, query)]

\* The object a cache miss returns once result is stored.
CacheMissResult(result, query) ==
  [result EXCEPT !.dependencies = filterDependenciesByQuery(result.dependencies, query)]

\* scanProjectDependencies up to its settling (no project, cache hit) or, on a
\* miss, the creation of the scratch directory of the branch taken.
ScanBegin(s, a) ==
  LET resolvedProject == PathResolve(a.projectPath)
      projectInfo     == detectProjectType(resolvedProject, projectFiles)
      projectRoot     == IF projectInfo.root # Null THEN projectInfo.root[1]
                         ELSE resolvedProject
      cacheKey == buildDependencyCacheKey(projectRoot, a.excludeTransitive,
                                          a.configurations, a.includeLogTail)
      identity == ScanIdentity(projectRoot, a)
      tempDir  == Mkdtemp(IF projectInfo.type = "maven" THEN MavenPrefix ELSE GradlePrefix,
                          DOMAIN scratch)
      started  == [IdleReq EXCEPT !.op = "scan", !.args = a,
                     !.local = [resolvedProject |-> resolvedProject,
                                projectType     |-> projectInfo.type,
                                projectRoot     |-> projectRoot,
                                cacheKey        |-> cacheKey],
                     !.ghost = [identity  |-> identity,
                                seen      |-> identity \in DOMAIN populated,
                                keysAtBegin  |-> DOMAIN dependencyCache,
                                cacheAtBegin |-> dependencyCache,
                                proc      |-> Null]]
      Done(o) == req' = [req EXCEPT ![s] =
                           [started EXCEPT !.pc = "done", !.outcome = Some(o)]]
  IN
  /\ req[s].pc = "idle"
  /\ IF projectInfo.type = "native"
       THEN /\ Done(Failure("No Maven or Gradle project detected", Null, Null))
            /\ UNCHANGED scratch
     ELSE IF cacheKey \in DOMAIN dependencyCache
       THEN /\ Done(Success(CacheHitResult(dependencyCache[cacheKey], resolvedProject,
                                           projectRoot, projectInfo.type, a.query)))
            /\ UNCHANGED scratch
     ELSE /\ Cardinality(DOMAIN dependencyCache) < MaxCached
          /\ req' = [req EXCEPT ![s] =
                       [started EXCEPT !.pc = "invoke", !.tmp = Some(tempDir)]]
          /\ scratch' =
               IF projectInfo.type = "maven"
                 THEN WithDir(scratch, tempDir)
                 ELSE WithFile(WithDir(scratch, tempDir), tempDir,
                               GradleInitScript(a.configurations, a.excludeTransitive))
  /\ UNCHANGED <<projectFiles, dependencyCache, populated, fnIn, fnOut>>

\* runCommand of the branch taken, up to the spawn: the command is checked
\* against a fresh detection from the project root.
ScanInvoke(s) ==
  LET r       == req[s]
      command == IF r.local.projectType = "maven" THEN Mvn
                 ELSE resolveGradleCommand(r.local.projectRoot, projectFiles).command
      check   == CommandCheck(command, r.local.projectRoot, projectFiles)
  IN
  /\ r.pc = "invoke"
  /\ IF check.mismatch
       THEN /\ Settle(s, Failure("Command requires another project type", Null, Null))
            /\ scratch' = RemoveDir(scratch, r.tmp[1])
       ELSE /\ req' = [req EXCEPT ![s].pc = "running", ![s].spawned = Spawn(@, command)]
            /\ UNCHANGED scratch
  /\ UNCHANGED <<projectFiles, dependencyCache, populated, fnIn, fnOut>>

\* Build-tool output is a sequence of lines.
LogTailLines == 10

\* a || b on line texts.
OrElseLines(a, b) == IF a # <<>> THEN a ELSE b

\* (stderr || stdout || "").trim().split("\n").slice(-10).join("\n")
LogTail(stderr, stdout) ==
  LET text == OrElseLines(stderr, stdout)
  IN SubSeq(text, IF Len(text) > LogTailLines THEN Len(text) - LogTailLines + 1 ELSE 1,
            Len(text))

\* stderr || stdout || "no output"
FailureOutput(stderr, stdout) ==
  OrElseLines(OrElseLines(stderr, stdout),
              << <<"n", "o", " ", "o", "u", "t", "p", "u", "t">> >>)

MavenHeader ==
  <<"T","h","e"," ","f","o","l","l","o","w","i","n","g"," ","f","i","l","e","s"," ",
    "h","a","v","e"," ","b","e","e","n"," ","r","e","s","o","l","v","e","d",":">>

MavenLineA == <<" "," "," ","g",":","a",":","j",":","1",":","c",":","/","m","/","a">>
MavenLineB ==
  <<"[","I","N","F","O","]"," ","G",":","B",":","j",":","1",":","c",":","/","m","/","B">>

\* What mvn can leave in the output file: a listing, and one naming a path twice.
MavenFiles ==
  { <<MavenHeader, MavenLineA, MavenLineB>>,
    <<MavenLineA, MavenLineA>> }

GradleLineA ==
  <<"M","C","P","_","D","E","P","|","c","|","a","-","1",".","j","a","r","|",
    "/","c","/","m","o","d","u","l","e","s","-","2","/","f","i","l","e","s","-","2",
    ".","1","/","g","/","a","/","1","/","h","/","a","-","1",".","j","a","r">>
GradleLineB ==
  <<"M","C","P","_","D","E","P","|","r","|","B",".","j","a","r","|",
    "/","l","/","B",".","j","a","r">>
GradleLineB2 ==
  <<"M","C","P","_","D","E","P","|","c","|","B",".","j","a","r","|",
    "/","l","/","B",".","j","a","r">>

\* What the injected task can print: a listing, and one naming a path twice.
GradleStdouts ==
  { <<GradleLineA, <<"B", "U", "I", "L", "D">>, GradleLineB>>,
    <<GradleLineB, GradleLineB2>> }

LogLine == <<"B", "U", "I", "L", "D">>
ErrLine == <<"e">>

\* What the build-tool process can do: fail to launch, or close.  file is what
\* readFile(outputFile) then yields for mvn ("" when there is no such file).
BuildOutcomes(projectType) ==
  {[kind |-> "enoent"], [kind |-> "error"]}
    \cup
  (IF projectType = "maven"
     THEN {[kind |-> "close", code |-> 1, stdout |-> <<LogLine>>, stderr |-> e, file |-> <<>>] :
             e \in {<<>>, <<ErrLine>>}}
            \cup {[kind |-> "close", code |-> 0, stdout |-> <<LogLine>>, stderr |-> <<>>,
                   file |-> f] : f \in MavenFiles}
     ELSE {[kind |-> "close", code |-> 1, stdout |-> <<>>, stderr |-> e, file |-> <<>>] :
             e \in {<<>>, <<ErrLine>>}}
            \cup {[kind |-> "close", code |-> 0, stdout |-> o, stderr |-> <<>>,
                   file |-> <<>>] : o \in GradleStdouts})

\* A Maven branch that reads the listing whatever the exit code was.
AfterMavenIgnoringExit(r, proc) ==
  IF proc.kind = "enoent"
    THEN Failure("Maven executable (mvn) was not found on PATH.", Null, Null)
  ELSE IF proc.kind = "error" THEN Failure("spawn error", Null, Null)
  ELSE Success([projectPath  |-> r.local.resolvedProject,
                projectRoot  |-> r.local.projectRoot,
                projectType  |-> "maven",
                dependencies |-> parseMavenDependencyList(proc.file),
                cached       |-> FALSE,
                logTail      |-> Null])

\* scanMavenDependencies after the mvn process ended.
AfterMaven(r, proc) ==
  IF proc.kind = "enoent"
    THEN Failure("Maven executable (mvn) was not found on PATH.", Null, Null)
  ELSE IF proc.kind = "error" THEN Failure("spawn error", Null, Null)
  ELSE IF proc.code # 0
    THEN Failure("mvn dependency:list failed with code", Some(proc.code),
                 Some(FailureOutput(proc.stderr, proc.stdout)))
  ELSE Success([projectPath  |-> r.local.resolvedProject,
                projectRoot  |-> r.local.projectRoot,
                projectType  |-> "maven",
                dependencies |-> parseMavenDependencyList(proc.file),
                cached       |-> FALSE,
                logTail      |-> IF r.args.includeLogTail
                                   THEN Some(LogTail(proc.stderr, proc.stdout))
                                   ELSE Null])

\* scanGradleDependencies after the gradle process ended.
AfterGradle(r, proc) ==
  IF proc.kind = "enoent"
    THEN Failure("Gradle executable (gradle/gradlew) was not found on PATH.", Null, Null)
  ELSE IF proc.kind = "error" THEN Failure("spawn error", Null, Null)
  ELSE IF proc.code # 0
    THEN Failure("gradle mcpListDeps failed with code", Some(proc.code),
                 Some(FailureOutput(proc.stderr, proc.stdout)))
  ELSE Success([projectPath  |-> r.local.resolvedProject,
                projectRoot  |-> r.local.projectRoot,
                projectType  |-> "gradle",
                dependencies |-> parseGradleDependencyOutput(proc.stdout),
                cached       |-> FALSE,
                logTail      |-> IF r.args.includeLogTail
                                   THEN Some(LogTail(proc.stderr, proc.stdout))
                                   ELSE Null])

\* A cache store that keeps the list as narrowed by the query of the scan that
\* populated it.
StoredFiltered(result, query) ==
  [result EXCEPT !.dependencies = filterDependenciesByQuery(@, query)]

\* The object scanProjectDependencies puts in the cache: the branch's result as
\* it is, before the query filter.
StoredResult(result, query) == result

\* A store that drops every other entry of the map.
SetAlone(map, key, value) == [k \in {key} |-> value]

\* The history of resolutions: the list the last successful resolution of a
\* scan identity produced.
Remember(map, key, value) ==
  [k \in DOMAIN map \cup {key} |-> IF k = key THEN value ELSE map[k]]

\* Map.prototype.set
MapSet(map, key, value) ==
  [k \in DOMAIN map \cup {key} |-> IF k = key THEN value ELSE map[k]]

\* The build tool of slot s ended: the rest of the branch (its finally removes
\* the scratch directory), then the cache store and the query filter.
ScanToolExit(s, proc) ==
  LET r      == req[s]
      result == IF r.local.projectType = "maven" THEN AfterMaven(r, proc)
                ELSE AfterGradle(r, proc)
      Finish(o) == req' = [req EXCEPT ![s].pc = "done", ![s].outcome = Some(o),
                                      ![s].ghost.proc = Some(proc)]
  IN
  /\ r.pc = "running"
  /\ proc \in BuildOutcomes(r.local.projectType)
  /\ scratch' = RemoveDir(scratch, r.tmp[1])
  /\ IF result.ok
       THEN /\ dependencyCache' = MapSet(dependencyCache, r.local.cacheKey,
                                        StoredResult(result.value, r.args.query))
            /\ populated' = Remember(populated, r.ghost.identity, result.value.dependencies)
            /\ Finish(Success(CacheMissResult(result.value, r.args.query)))
       ELSE /\ Finish(result)
            /\ UNCHANGED <<dependencyCache, populated>>
  /\ UNCHANGED <<projectFiles, fnIn, fnOut>>

\* The caller received the outcome; the slot is free again.
Return(s) ==
  /\ req[s].pc = "done"
  /\ req' = [req EXCEPT ![s] = IdleReq]
  /\ UNCHANGED <<projectFiles, dependencyCache, scratch, populated, fnIn, fnOut>>

\* The build markers present on disk.
BaseFiles ==
  {PathJoin(DirM, PomXml), PathJoin(DirG, BuildGradle), PathJoin(DirG, SettingsGradle)}

EmptyMap == [k \in {} |-> 0]

Init ==
  /\ projectFiles \in {BaseFiles, BaseFiles \cup {PathJoin(DirG, Gradlew)}}
  /\ dependencyCache = EmptyMap
  /\ scratch = EmptyMap
  /\ req = [s \in {1} |-> IdleReq]
  /\ populated = EmptyMap
  /\ fnIn = Null
  /\ fnOut = Null

Next ==
  \/ \E s \in DOMAIN req, j \in JarInputs, i \in InnerInputs : ListEntries(s, j, i)
  \/ \E s \in DOMAIN req, j \in JarInputs, e \in EntryInputs, c \in BOOLEAN :
       ReadBegin(s, j, e, c)
  \/ \E s \in DOMAIN req, p \in ProcessOutcomes, f \in DecompiledFiles : CfrExit(s, p, f)
  \/ \E s \in DOMAIN req, p \in ProcessOutcomes : JavapExit(s, p)
  \/ \E s \in DOMAIN req, a \in ScanInputs : ScanBegin(s, a)
  \/ \E s \in DOMAIN req : ScanInvoke(s)
  \/ \E s \in DOMAIN req, p \in BuildOutcomes("maven") \cup BuildOutcomes("gradle") :
       ScanToolExit(s, p)
  \/ \E s \in DOMAIN req : Return(s)

Spec == Init /\ [][Next]_vars

(***************************************************************************)
(* listJarEntries as a function of the archive: the archive and the filter *)
(* prefix are drawn in the initial state and the listing is computed once. *)
(***************************************************************************)

\* Bound of the model: how far past MAX_LIST_ENTRIES the generated archives go.
ExtraFill == 1

DigitChars == <<"0", "1", "2", "3", "4", "5", "6", "7", "8", "9">>

\* The three-digit decimal spelling of n.
Digits3(n) ==
  <<DigitChars[((n \div 100) % 10) + 1], DigitChars[((n \div 10) % 10) + 1],
    DigitChars[(n % 10) + 1]>>

\* n generated leaf files f001, f002, ... below the directory prefix dir.
FillEntries(dir, n) == [i \in 1..n |-> ZipFile(dir \o <<"f">> \o Digits3(i), i)]

FillCounts ==
  {0, 2, MAX_LIST_ENTRIES - 1, MAX_LIST_ENTRIES} \cup
    {MAX_LIST_ENTRIES + k : k \in 1..ExtraFill}

\* Hand-written entries an archive may start with, each present or not.
BaseEntries ==
  << ZipDir(<<"d", "/">>),
     ZipFile(<<"d", "/", "s", "/", "x">>, 2),
     ZipFile(<<"d", "/", "s", "/", "y">>, 3),
     ZipFile(<<"d", "x">>, 4),
     ZipFile(<<"t">>, 5) >>

\* The subsequence of a sequence at the indices in keep.
RECURSIVE Pick(_, _, _)
Pick(items, keep, i) ==
  IF i > Len(items) THEN <<>>
  ELSE (IF i \in keep THEN <<items[i]>> ELSE <<>>) \o Pick(items, keep, i + 1)

ListInputs ==
  {[archive   |-> Pick(BaseEntries, keep, 1) \o FillEntries(dir, n),
    innerPath |-> inner] :
      keep \in SUBSET (1..Len(BaseEntries)),
      dir \in {<<>>, <<"d", "/">>},
      n \in FillCounts,
      inner \in {<<>>, <<"d">>, <<"\\", "d", "/", "/">>}}

ListedJar == <<"/", "r", "/", "g", ".", "j", "a", "r">>

InitList ==
  /\ fnIn \in ListInputs
  /\ fnOut = Null
  /\ projectFiles = BaseFiles
  /\ dependencyCache = EmptyMap
  /\ scratch = EmptyMap
  /\ req = [s \in {1} |-> IdleReq]
  /\ populated = EmptyMap

ListApply ==
  /\ fnOut = Null
  /\ fnOut' = Some(ListArchive(ListedJar, fnIn.archive, fnIn.innerPath))
  /\ UNCHANGED <<fnIn, projectFiles, dependencyCache, scratch, req, populated>>

NextList == ListApply

SpecList == InitList /\ [][NextList]_vars

(***************************************************************************)
(* Properties of the service, checked under Spec unless stated otherwise.  *)
(***************************************************************************)

\* The requests of operation op, and those of them that have settled.
Requests(op) == {s \in DOMAIN req : req[s].op = op}
Settled(op)  == {s \in Requests(op) : req[s].pc = "done"}

\* The entry path names a class file.
IsClassEntry(entryPath) == EndsWith(ToLowerCase(entryPath), DotClass)

\* The archive beside jarPath named {base}-sources exists and holds the .java
\* file the class entry maps to.
AttachedSourceAvailable(jarPath, entryPath) ==
  LET sibling == SubSeq(jarPath, 1, Len(jarPath) - Len(DotJar))
                   \o <<"-", "s", "o", "u", "r", "c", "e", "s">> \o DotJar
      java    == SubSeq(entryPath, 1, Len(entryPath) - Len(DotClass)) \o DotJava
  IN /\ EndsWith(jarPath, DotJar)
     /\ sibling \in projectFiles \cup Archives
     /\ \E i \in 1..Len(ZipEntries(sibling)) :
          /\ ZipEntries(sibling)[i].entryName = java
          /\ ~ZipEntries(sibling)[i].isDirectory

\* C1: readEntry applies its tiers in order and stops at the first success.  A
\* read of an entry that is not a class file spawns nothing and, when it
\* succeeds, is a raw resource; a read of a class entry whose sibling sources
\* archive holds the mapped .java file is the attached source and spawns
\* nothing; the decompiler runs only for a class entry without attached
\* source, and javap only after the decompiler ran and left no source.
C1_TierOrder ==
  \A s \in Requests("read") :
    LET r        == req[s]
        jar      == r.local.jarPath
        entry    == r.local.entryPath
        readable == jar \in Archives /\ entry # <<>>
    IN /\ r.spawned \in {<<>>, <<Java>>, <<Java, Javap>>}
       /\ (readable /\ ~IsClassEntry(entry)) =>
            /\ r.pc = "done" /\ r.spawned = <<>>
            /\ r.outcome[1].ok => r.outcome[1].value.source = "resource"
       /\ (readable /\ IsClassEntry(entry) /\ AttachedSourceAvailable(jar, entry)) =>
            /\ r.pc = "done" /\ r.spawned = <<>>
            /\ r.outcome[1].ok /\ r.outcome[1].value.source = "source"
       /\ r.spawned # <<>> =>
            readable /\ IsClassEntry(entry) /\ ~AttachedSourceAvailable(jar, entry)
       /\ Len(r.spawned) = 2 =>
            /\ r.local.cfr # Null
            /\ \/ r.local.cfr[1].javaSource = Null
               \/ r.local.cfr[1].javaSource[1].len = 0
       /\ (r.pc = "done" /\ r.outcome[1].ok) =>
            /\ r.outcome[1].value.source = "decompiled" => r.spawned = <<Java>>
            /\ r.outcome[1].value.source = "summary" => r.spawned = <<Java, Javap>>

\* A class entry was answered from the attached source archive.
C1_Witness ==
  \E s \in Settled("read") :
    /\ req[s].outcome[1].ok
    /\ req[s].outcome[1].value.source = "source"
    /\ IsClassEntry(req[s].local.entryPath)
    /\ req[s].spawned = <<>>

\* The scans that settled with a result.
Scanned == {s \in Settled("scan") : req[s].outcome[1].ok}

\* The cache key k belongs to the scan identity id: the same root and flags and
\* the same set of configuration names.
KeyOf(k, id) ==
  /\ k.projectRoot = id.projectRoot
  /\ k.excludeTransitive = id.excludeTransitive
  /\ k.includeLogTail = id.includeLogTail
  /\ {k.configurations[i] : i \in 1..Len(k.configurations)} = id.names

\* C2: on an unchanging project a successful scan reports a cache hit exactly
\* when a scan of the same root and options succeeded before it; a scan that
\* was not preceded by one (its options differ, for instance in the
\* configurations filter) misses the cache and adds an entry of its own,
\* keeping every entry that was there.
C2_MissThenHit ==
  /\ Cardinality(DOMAIN dependencyCache) = Cardinality(DOMAIN populated)
  /\ \A s \in Scanned :
       LET r == req[s]
       IN /\ r.outcome[1].value.cached = r.ghost.seen
          /\ ~r.ghost.seen =>
               /\ r.local.cacheKey \in DOMAIN dependencyCache
               /\ r.local.cacheKey \notin r.ghost.keysAtBegin
               /\ r.ghost.keysAtBegin \subseteq DOMAIN dependencyCache
               /\ Cardinality(DOMAIN dependencyCache) =
                    Cardinality(r.ghost.keysAtBegin) + 1

\* A scan missed the cache although a scan of the same root and flags with
\* another configurations filter had populated it, and both entries are held.
C2_Witness ==
  \E s \in Scanned :
    /\ ~req[s].outcome[1].value.cached
    /\ \E k \in req[s].ghost.keysAtBegin :
         /\ k.projectRoot = req[s].local.cacheKey.projectRoot
         /\ k.excludeTransitive = req[s].local.cacheKey.excludeTransitive
         /\ k.includeLogTail = req[s].local.cacheKey.includeLogTail
         /\ k.configurations # req[s].local.cacheKey.configurations
         /\ {k, req[s].local.cacheKey} \subseteq DOMAIN dependencyCache

\* C3: no two dependency records of a scan result have the same absolute
\* path, whichever build system produced them.
C3_UniquePaths ==
  \A s \in Scanned :
    LET deps == req[s].outcome[1].value.dependencies
    IN \A i, j \in 1..Len(deps) : deps[i].path = deps[j].path => i = j

\* The records of a list that the query selects: all of them when the query is
\* absent or blank, else those whose group:artifact or absolute path contains
\* the trimmed query, letter case ignored.
Selected(full, query) ==
  LET q == ToLowerCase(Trim(query))
  IN IF q = <<>> THEN full
     ELSE SelectSeq(full,
            LAMBDA dep :
              \/ Includes(ToLowerCase(dep.groupId \o <<":">> \o dep.artifactId), q)
              \/ Includes(ToLowerCase(dep.path), q))

\* C4: the query is not part of the cache key and the cache holds the
\* unfiltered list: every successful scan returns the records of the full
\* resolved list of its identity that the query selects, in order, and the
\* cache entry of its key is that full list.
C4_QueryIsPostFilter ==
  \A s \in Scanned :
    LET r    == req[s]
        full == populated[r.ghost.identity]
    IN /\ r.outcome[1].value.dependencies = Selected(full, r.args.query)
       /\ dependencyCache[r.local.cacheKey].dependencies = full
       /\ \A k \in DOMAIN dependencyCache :
            DOMAIN k = {"projectRoot", "excludeTransitive", "configurations",
                        "includeLogTail"}

\* A cache hit whose query selected some but not all records of the full list.
C4_Witness ==
  \E s \in Scanned :
    LET r == req[s]
    IN /\ r.outcome[1].value.cached
       /\ Trim(r.args.query) # <<>>
       /\ Len(r.outcome[1].value.dependencies) > 0
       /\ Len(r.outcome[1].value.dependencies) < Len(populated[r.ghost.identity])

\* C5: an entry of the cache is never evicted: every identity that was scanned
\* successfully keeps its entry, and every later scan of it settles at once as
\* a cache hit, having spawned no build tool and made no scratch directory.
C5_NeverEvicted ==
  /\ \A id \in DOMAIN populated : \E k \in DOMAIN dependencyCache : KeyOf(k, id)
  /\ \A s \in Requests("scan") :
       (req[s].ghost.seen /\ req[s].local.projectType # "native") =>
         /\ req[s].pc = "done"
         /\ req[s].outcome[1].ok
         /\ req[s].outcome[1].value.cached
         /\ req[s].spawned = <<>>
         /\ req[s].tmp = Null

\* A cache hit on one key while the cache also holds another.
C5_Witness ==
  \E s \in Scanned :
    /\ req[s].ghost.seen
    /\ req[s].outcome[1].value.cached
    /\ Cardinality(DOMAIN dependencyCache) > 1

EntryPresent(jarPath, entryPath) ==
  \E i \in 1..Len(ZipEntries(jarPath)) :
    normalizeJarEntry(ZipEntries(jarPath)[i].entryName) = entryPath

\* C7: a read of a missing archive, or of an entry the archive does not hold,
\* fails with a not-found error, whatever the entry path ends in: no tier
\* answers for an entry the archive does not contain.
C7_NotFoundWhenMissing ==
  \A s \in Settled("read") :
    LET r == req[s]
    IN (/\ r.local.entryPath # <<>>
        /\ \/ r.local.jarPath \notin Archives \cup projectFiles
           \/ ~EntryPresent(r.local.jarPath, r.local.entryPath)) =>
         /\ ~r.outcome[1].ok
         /\ r.outcome[1].error.msg \in {"Jar file not found", "Entry not found"}

\* The decompiler process of request r closed and left no source file.
NoDecompilerOutput(r) ==
  /\ r.local.cfr # Null
  /\ r.local.cfr[1].proc.kind = "close"
  /\ \/ r.local.cfr[1].javaSource = Null
     \/ r.local.cfr[1].javaSource[1].len = 0

\* C8: whenever the decompiler leaves no output file, its exit code
\* notwithstanding, javap has been invoked for the class before the read
\* settles, and a read that failed reports the missing output, not javap.
C8_JavapAfterNoOutput ==
  \A s \in Settled("read") :
    NoDecompilerOutput(req[s]) =>
      /\ req[s].spawned = <<Java, Javap>>
      /\ req[s].outcome[1].ok => req[s].outcome[1].value.source = "summary"

\* C9: a read that fails after the decompiler ran and every tier came up empty
\* carries the decompiler's exit code and its captured output in the error.
C9_FailureCarriesDiagnostics ==
  \A s \in Settled("read") :
    (NoDecompilerOutput(req[s]) /\ ~req[s].outcome[1].ok) =>
      /\ req[s].outcome[1].error.code = Some(req[s].local.cfr[1].proc.code)
      /\ req[s].outcome[1].error.output # Null

\* The number of folded entries of an archive below a prefix: the distinct
\* first segments that are directories, and the leaves.
FoldedCount(archive, innerPath) ==
  LET rows == EntryRows(archive, normalizeJarEntry(innerPath))
  IN Cardinality({rows[i].path : i \in {j \in 1..Len(rows) : rows[j].kind = "directory"}})
       + Cardinality({i \in 1..Len(rows) : rows[i].kind = "file"})

\* C10 (under SpecList): a listing returns at most MAX_LIST_ENTRIES entries,
\* total is the number of folded entries before truncation, and truncated is
\* true exactly when total exceeds MAX_LIST_ENTRIES.
C10_ListBounded ==
  fnOut # Null =>
    LET out == fnOut[1]
    IN /\ Len(out.entries) <= 100
       /\ out.total = FoldedCount(fnIn.archive, fnIn.innerPath)
       /\ out.truncated <=> out.total > 100
       /\ Len(out.entries) = IF out.total > 100 THEN 100 ELSE out.total

\* A listing of 101 folded entries came back truncated to 100.
C10_Witness ==
  /\ fnOut # Null
  /\ fnOut[1].total = 101
  /\ fnOut[1].truncated
  /\ Len(fnOut[1].entries) = 100

\* C11 (under SpecList): every entry of a listing, synthetic directory or
\* leaf, has a relative path that is not empty and neither begins nor ends
\* with a separator.
C11_PathsNormalised ==
  fnOut # Null =>
    \A i \in 1..Len(fnOut[1].entries) :
      LET p == fnOut[1].entries[i].path
      IN /\ p # <<>>
         /\ p[1] \notin {"/", "\\"}
         /\ p[Len(p)] \notin {"/", "\\"}

\* C12 (under SpecList): a listing is all its directories, in ascending order
\* of path, followed by all its leaves, in ascending order of path: no leaf
\* comes before a directory.
C12_DirectoriesFirst ==
  fnOut # Null =>
    \A i, j \in 1..Len(fnOut[1].entries) :
      LET a == fnOut[1].entries[i]
          b == fnOut[1].entries[j]
      IN i < j =>
           /\ ~(~a.directory /\ b.directory)
           /\ a.directory = b.directory => LocaleLeq(a.path, b.path)

\* The segments of a path: what lies between its separators, either slash,
\* empty pieces dropped.
Segments(p) ==
  LET unified == [i \in 1..Len(p) |-> IF p[i] = "\\" THEN "/" ELSE p[i]]
  IN SelectSeq(Split(unified, "/"), LAMBDA seg : seg # <<>>)

\* The entries an archive must list below a prefix, as a set: for each archive
\* entry whose segments extend those of the prefix, its first further segment,
\* as a directory when more segments follow and as a leaf with the entry's
\* metadata otherwise.
ExpectedItems(archive, innerPath) ==
  LET prefix == Segments(innerPath)
      under  == {i \in 1..Len(archive) :
                   LET segs == Segments(archive[i].entryName)
                   IN /\ Len(segs) > Len(prefix)
                      /\ SubSeq(segs, 1, Len(prefix)) = prefix}
      Item(i) ==
        LET segs == Segments(archive[i].entryName)
        IN IF Len(segs) > Len(prefix) + 1
             THEN [path |-> segs[Len(prefix) + 1], directory |-> TRUE,
                   size |-> 0, compressedSize |-> 0, synthetic |-> TRUE]
             ELSE [path |-> segs[Len(prefix) + 1],
                   directory |-> archive[i].isDirectory,
                   size |-> archive[i].size,
                   compressedSize |-> archive[i].compressedSize,
                   synthetic |-> FALSE]
  IN {Item(i) : i \in under}

\* A returned entry with the separator that marks a synthetic directory taken
\* off its path.
Bare(entry) ==
  LET marked == entry.path # <<>> /\ entry.path[Len(entry.path)] = "/"
  IN [path |-> IF marked THEN SubSeq(entry.path, 1, Len(entry.path) - 1)
               ELSE entry.path,
      directory |-> entry.directory, size |-> entry.size,
      compressedSize |-> entry.compressedSize, synthetic |-> marked]

\* C13 (under SpecList): a listing folds the archive to one level below the
\* normalised prefix: it holds exactly the first further segments of the
\* entries lying below the prefix (none for the prefix itself or for a name
\* that only shares the prefix's characters), each synthetic directory once,
\* each leaf with its metadata; and every spelling of the prefix gives the
\* listing of its canonical spelling.
C13_FoldsOneLevel ==
  fnOut # Null =>
    LET out      == fnOut[1]
        expected == ExpectedItems(fnIn.archive, fnIn.innerPath)
        listed   == {Bare(out.entries[i]) : i \in 1..Len(out.entries)}
        canon    == Join(Segments(fnIn.innerPath), <<"/">>)
    IN /\ listed \subseteq expected
       /\ ~out.truncated => listed = expected
       /\ \A i, j \in 1..Len(out.entries) :
            (out.entries[i] = out.entries[j] /\ Bare(out.entries[i]).synthetic) => i = j
       /\ out.total = Cardinality(expected)
       /\ out.entries = ListArchive(ListedJar, fnIn.archive, canon).entries

\* A prefix spelled with a backslash and repeated separators, over an archive
\* that also holds a name sharing the prefix's characters, folded two entries
\* of one directory into a single synthetic directory.
C13_Witness ==
  /\ fnOut # Null
  /\ fnIn.innerPath = <<"\\", "d", "/", "/">>
  /\ \E i \in 1..Len(fnIn.archive) : fnIn.archive[i].entryName = <<"d", "x">>
  /\ Cardinality({i \in 1..Len(fnIn.archive) :
                    /\ Len(Segments(fnIn.archive[i].entryName)) > 2
                    /\ SubSeq(Segments(fnIn.archive[i].entryName), 1, 2)
                         = << <<"d">>, <<"s">> >>}) = 2
  /\ fnOut[1].total = 1
  /\ fnOut[1].entries[1].directory

(***************************************************************************)
(* detectProjectType as a walk: the start path and the files on disk are   *)
(* drawn when it is called, and each iteration of the loop is a step.      *)
(* The loop only awaits file-system calls, which return, so a walk that    *)
(* can take a step takes it.                                               *)
(***************************************************************************)

\* Start paths: directories, a relative path, a marker file and an archive.
DetectStarts ==
  {DirRoot, DirW, DirM, DirMS, <<"m">>, PathJoin(DirM, PomXml), AppJar}

\* The marker files that may be on disk.
MarkerCandidates ==
  {PathJoin(DirM, PomXml), PathJoin(DirM, BuildGradle), PathJoin(DirW, BuildGradle),
   PathJoin(DirW, SettingsGradle), PathJoin(DirMS, SettingsGradleKts),
   PathJoin(DirRoot, PomXml)}

DetectInputs ==
  {[startPath |-> p, files |-> f] : p \in DetectStarts, f \in SUBSET MarkerCandidates}

InitDetect ==
  /\ fnIn = Null
  /\ fnOut = Null
  /\ projectFiles = BaseFiles
  /\ dependencyCache = EmptyMap
  /\ scratch = EmptyMap
  /\ req = [s \in {1} |-> IdleReq]
  /\ populated = EmptyMap

\* detectProjectType is called with an input and runs up to the loop: the
\* resolved start path, or its directory when it is a file.
WalkStart(input) ==
  LET resolved == PathResolve(input.startPath)
  IN /\ fnOut = Null
     /\ fnIn' = input
     /\ fnOut' = Some([current |-> IF IsFile(resolved, input.files)
                                     THEN PathDirname(resolved) ELSE resolved,
                       visited |-> <<>>,
                       result  |-> Null])
     /\ UNCHANGED <<projectFiles, dependencyCache, scratch, req, populated>>

\* One iteration of the loop: return at a marker, stop at the root, or go up.
WalkStep ==
  LET walk   == fnOut[1]
      found  == DetectAt(walk.current, fnIn.files)
      parent == PathDirname(walk.current)
      seen   == Append(walk.visited, walk.current)
  IN /\ fnOut # Null
     /\ walk.result = Null
     /\ fnOut' =
          IF found # Null
            THEN Some([walk EXCEPT !.visited = seen, !.result = found])
          ELSE IF parent = walk.current
            THEN Some([walk EXCEPT !.visited = seen,
                         !.result = Some([type |-> "native", root |-> Null,
                                          markers |-> <<>>])])
          ELSE Some([walk EXCEPT !.visited = seen, !.current = parent])
     /\ UNCHANGED <<fnIn, projectFiles, dependencyCache, scratch, req, populated>>

NextDetect == (\E input \in DetectInputs : WalkStart(input)) \/ WalkStep

SpecDetect == InitDetect /\ [][NextDetect]_vars /\ WF_vars(NextDetect)

\* The detection a finished walk returned, as a set of at most one element.
Detected == IF fnOut # Null /\ fnOut[1].result # Null THEN {fnOut[1].result[1]} ELSE {}

\* The directory a detection starts in: the absolute start path (a relative one
\* is taken from the working directory), or the containing directory when the
\* start path is a file on disk.
StartDirectory ==
  LET segs == IF fnIn.startPath[1] = "/" THEN Segments(fnIn.startPath)
              ELSE Segments(Cwd) \o Segments(fnIn.startPath)
      path == <<"/">> \o Join(segs, <<"/">>)
  IN IF path \in fnIn.files \cup Archives
       THEN <<"/">> \o Join(SubSeq(segs, 1, Len(segs) - 1), <<"/">>)
       ELSE path

\* The directory and its ancestors, nearest first, the root last.
AncestorChain(dir) ==
  LET segs == Segments(dir)
  IN [k \in 1..(Len(segs) + 1) |->
        <<"/">> \o Join(SubSeq(segs, 1, Len(segs) + 1 - k), <<"/">>)]

MarkerNames == {PomXml, BuildGradle, BuildGradleKts, SettingsGradle, SettingsGradleKts}

\* The file named name in directory dir is on disk.
OnDisk(dir, name) ==
  (IF dir = <<"/">> THEN dir \o name ELSE dir \o <<"/">> \o name) \in fnIn.files

\* The positions of the chain whose directory holds a build marker.
MarkedPositions(chain) ==
  {k \in 1..Len(chain) : \E name \in MarkerNames : OnDisk(chain[k], name)}

\* C14 (under SpecDetect): detection returns the nearest directory, from the
\* start directory upward, that holds a build marker; its kind is Maven when
\* that directory holds pom.xml, whatever Gradle markers are beside it, and
\* Gradle otherwise; with no marker on the way up the kind is native.
C14_NearestMarkerWins ==
  \A d \in Detected :
    LET chain  == AncestorChain(StartDirectory)
        marked == MarkedPositions(chain)
        k      == CHOOSE n \in marked : \A m \in marked : n <= m
    IN /\ d = detectProjectType(fnIn.startPath, fnIn.files)
       /\ marked = {} => d.type = "native"
       /\ marked # {} =>
            /\ d.root = Some(chain[k])
            /\ d.type = IF OnDisk(chain[k], PomXml) THEN "maven" ELSE "gradle"

\* A directory holding both pom.xml and build.gradle, below a directory with a
\* Gradle marker, was detected as Maven from a directory below it.
C14_Witness ==
  \E d \in Detected :
    /\ d.type = "maven"
    /\ d.root = Some(DirM)
    /\ StartDirectory = DirMS
    /\ {PathJoin(DirM, PomXml), PathJoin(DirM, BuildGradle), PathJoin(DirW, BuildGradle)}
         \subseteq fnIn.files

\* C15 (under SpecDetect): a detection has a root exactly when its kind is not
\* native, and then it lists at least one marker, each one on disk in the root
\* and a marker of the detected kind.
C15_DetectionWellFormed ==
  \A d \in Detected :
    /\ d.root # Null <=> d.type # "native"
    /\ d.type \in {"maven", "gradle", "native"}
    /\ d.type # "native" =>
         /\ Len(d.markers) > 0
         /\ \A i \in 1..Len(d.markers) :
              /\ OnDisk(d.root[1], d.markers[i])
              /\ d.markers[i] \in (IF d.type = "maven" THEN {PomXml}
                                   ELSE MarkerNames \ {PomXml})

\* A Gradle detection listing two markers.
C15_Witness ==
  \E d \in Detected : d.type = "gradle" /\ Len(d.markers) = 2

\* The directories the walk has visited are the start directory and its
\* ancestors in order, none twice; a finished walk stopped at the first
\* directory with a marker or, as native, at the root.
WalkBounded ==
  fnOut # Null =>
    LET walk   == fnOut[1]
        chain  == AncestorChain(StartDirectory)
        marked == MarkedPositions(chain)
    IN /\ Len(walk.visited) <= Len(chain)
       /\ walk.visited = SubSeq(chain, 1, Len(walk.visited))
       /\ walk.result = Null =>
            /\ Len(walk.visited) < Len(chain)
            /\ walk.current = chain[Len(walk.visited) + 1]
            /\ \A k \in marked : k > Len(walk.visited)
       /\ walk.result # Null =>
            IF walk.result[1].type = "native"
              THEN marked = {} /\ walk.visited = chain /\ walk.current = <<"/">>
              ELSE /\ Len(walk.visited) \in marked
                   /\ \A k \in marked : k >= Len(walk.visited)

\* C16 (under SpecDetect): detection terminates for every start path: the walk
\* visits each ancestor at most once and ends at the first directory with a
\* marker, or at the root with kind native.
C16_WalkTerminates == []WalkBounded /\ <>(Detected # {})

\* A walk from three levels down found no marker and ended at the root.
C16_Witness ==
  \E d \in Detected :
    /\ d.type = "native"
    /\ Len(fnOut[1].visited) = 4

(***************************************************************************)
(* runCommand as a function of the command, the detection context and the  *)
(* files on disk.                                                          *)
(***************************************************************************)

InvokeCommands ==
  {Mvn, <<"M", "V", "N">>, Gradle, PathJoin(DirG, Gradlew), Java, Javap,
   <<"m", "v", "n", "w">>}

InvokeContexts == {Null, Some(DirMS), Some(DirG), Some(DirR)}

InvokeFiles ==
  SUBSET {PathJoin(DirM, PomXml), PathJoin(DirG, BuildGradle),
          PathJoin(DirW, SettingsGradle)}

InvokeInputs ==
  {[command |-> c, projectPath |-> p, cwd |-> d, files |-> f,
    startPath |-> ProjectContext(p, d)] :
      c \in InvokeCommands, p \in InvokeContexts, d \in InvokeContexts, f \in InvokeFiles}

InitInvoke ==
  /\ fnIn = Null
  /\ fnOut = Null
  /\ projectFiles = BaseFiles
  /\ dependencyCache = EmptyMap
  /\ scratch = EmptyMap
  /\ req = [s \in {1} |-> IdleReq]
  /\ populated = EmptyMap

Invoke(input) ==
  /\ fnOut = Null
  /\ fnIn' = input
  /\ fnOut' = Some(runCommand(input.command, input.projectPath, input.cwd, input.files))
  /\ UNCHANGED <<projectFiles, dependencyCache, scratch, req, populated>>

NextInvoke == \E input \in InvokeInputs : Invoke(input)

SpecInvoke == InitInvoke /\ [][NextInvoke]_vars

\* The build-system kind a command requires, by the lower-cased last segment
\* of its path: Maven for mvn, Gradle for gradle and gradlew, none otherwise.
RequiredKind(command) ==
  LET segs == Segments(command)
      base == ToLowerCase(segs[Len(segs)])
  IN IF base \in {<<"m","v","n">>, <<"m","v","n",".","c","m","d">>} THEN "maven"
     ELSE IF base \in {<<"g","r","a","d","l","e">>, <<"g","r","a","d","l","e","w">>,
                       <<"g","r","a","d","l","e",".","b","a","t">>,
                       <<"g","r","a","d","l","e","w",".","b","a","t">>} THEN "gradle"
     ELSE "any"

\* The kind of the nearest marked directory of the detection context.
ContextKind ==
  LET chain  == AncestorChain(StartDirectory)
      marked == MarkedPositions(chain)
      k      == CHOOSE n \in marked : \A m \in marked : n <= m
  IN IF marked = {} THEN "native"
     ELSE IF OnDisk(chain[k], PomXml) THEN "maven" ELSE "gradle"

\* C17 (under SpecInvoke): the invoker spawns nothing when the kind the
\* command's basename requires differs from the kind detected for the context:
\* it fails with an error naming both kinds and the detected root; a command
\* that requires no kind, and one whose kind matches, is spawned.
C17_NoSpawnOnMismatch ==
  fnOut # Null =>
    IF RequiredKind(fnIn.command) # "any" /\ RequiredKind(fnIn.command) # ContextKind
      THEN /\ ~fnOut[1].spawned
           /\ fnOut[1].error # Null
           /\ fnOut[1].error[1].msg = "Command requires another project type"
           /\ fnOut[1].error[1].required = RequiredKind(fnIn.command)
           /\ fnOut[1].error[1].detected = ContextKind
           /\ fnOut[1].error[1].root # Null <=> ContextKind # "native"
      ELSE fnOut[1].spawned /\ fnOut[1].error = Null

\* mvn was refused in a Gradle project.
C17_Witness ==
  /\ fnOut # Null
  /\ fnIn.command = Mvn
  /\ ContextKind = "gradle"
  /\ ~fnOut[1].spawned

\* No build marker is on disk in the directory or in any of its ancestors.
NoMarkerAbove(dir, files) ==
  \A k \in 1..Len(AncestorChain(dir)), name \in MarkerNames :
    (IF AncestorChain(dir)[k] = <<"/">> THEN <<"/">> \o name
     ELSE AncestorChain(dir)[k] \o <<"/">> \o name) \notin files

\* C18: a scan of a path with no build marker in its directory or above it
\* fails at once with the no-project error: it spawns no process, makes no
\* scratch directory or file and leaves the dependency cache as it was.
C18_NoProjectDetected ==
  \A s \in Requests("scan") :
    NoMarkerAbove(req[s].args.projectPath, projectFiles) =>
      /\ req[s].pc = "done"
      /\ ~req[s].outcome[1].ok
      /\ req[s].outcome[1].error.msg = "No Maven or Gradle project detected"
      /\ req[s].spawned = <<>>
      /\ req[s].tmp = Null
      /\ scratch = EmptyMap
      /\ dependencyCache = req[s].ghost.cacheAtBegin

\* A scan outside every project failed while the cache held entries.
C18_Witness ==
  \E s \in Settled("scan") :
    /\ req[s].args.projectPath = DirR
    /\ ~req[s].outcome[1].ok
    /\ DOMAIN dependencyCache # {}

(***************************************************************************)
(* Consecutive scans: the service with scans only, remembering in fnIn the *)
(* cache key and the way the build tool ended for the scan that returned   *)
(* last.                                                                   *)
(***************************************************************************)
RetryInputs ==
  {a \in ScanInputs : a.projectPath \in {DirMS, DirG} /\ a.query = <<>>}

InitRetry ==
  /\ projectFiles = BaseFiles
  /\ dependencyCache = EmptyMap
  /\ scratch = EmptyMap
  /\ req = [s \in {1} |-> IdleReq]
  /\ populated = EmptyMap
  /\ fnIn = [last |-> Null]
  /\ fnOut = Null

\* The caller received the outcome of a scan.
ReturnScan(s) ==
  /\ req[s].pc = "done"
  /\ req' = [req EXCEPT ![s] = IdleReq]
  /\ fnIn' = [last |-> Some([cacheKey |-> req[s].local.cacheKey,
                             proc     |-> req[s].ghost.proc])]
  /\ UNCHANGED <<projectFiles, dependencyCache, scratch, populated, fnOut>>

NextRetry ==
  \/ \E s \in DOMAIN req, a \in RetryInputs : ScanBegin(s, a)
  \/ \E s \in DOMAIN req : ScanInvoke(s)
  \/ \E s \in DOMAIN req, p \in BuildOutcomes("maven") \cup BuildOutcomes("gradle") :
       ScanToolExit(s, p)
  \/ \E s \in DOMAIN req : ReturnScan(s)

SpecRetry == InitRetry /\ [][NextRetry]_vars

\* The build tool of the scan ended with a non-zero exit code.
ExitedNonZero(procOpt) ==
  /\ procOpt # Null
  /\ procOpt[1].kind = "close"
  /\ procOpt[1].code # 0

\* The scan in the slot comes right after a scan of the same key whose build
\* tool exited non-zero.
FollowsFailedExit(s) ==
  /\ req[s].op = "scan"
  /\ fnIn.last # Null
  /\ fnIn.last[1].cacheKey = req[s].local.cacheKey
  /\ ExitedNonZero(fnIn.last[1].proc)

\* C19: a scan whose build tool exits non-zero fails with the build-tool
\* failure carrying the exit code and the captured output, and leaves the
\* dependency cache as it was; the next scan of the same key runs the build
\* tool again and, when it succeeds, reports that it was not a cache hit.
C19_FailedExitNotCached ==
  /\ \A s \in Settled("scan") :
       ExitedNonZero(req[s].ghost.proc) =>
         LET p == req[s].ghost.proc[1]
             e == req[s].outcome[1]
         IN /\ ~e.ok
            /\ e.error.msg \in {"mvn dependency:list failed with code",
                                "gradle mcpListDeps failed with code"}
            /\ e.error.code = Some(p.code)
            /\ e.error.output # Null
            /\ e.error.output[1] # <<>>
            /\ p.stderr # <<>> => e.error.output[1] = p.stderr
            /\ (p.stderr = <<>> /\ p.stdout # <<>>) => e.error.output[1] = p.stdout
            /\ dependencyCache = req[s].ghost.cacheAtBegin
            /\ req[s].local.cacheKey \notin DOMAIN dependencyCache
  /\ \A s \in DOMAIN req :
       FollowsFailedExit(s) =>
         /\ req[s].tmp # Null
         /\ req[s].pc = "done" =>
              /\ Len(req[s].spawned) = 1
              /\ req[s].outcome[1].ok => ~req[s].outcome[1].value.cached

\* A scan failed on a non-zero exit and the next scan of the same key ran the
\* build tool and succeeded.
C19_Witness ==
  \E s \in Settled("scan") :
    /\ FollowsFailedExit(s)
    /\ req[s].outcome[1].ok
    /\ ~req[s].outcome[1].value.cached
    /\ req[s].local.cacheKey \in DOMAIN dependencyCache

\* The messages that report a missing executable.
JavaNotFound   == "Java runtime (java) was not found on PATH."
MavenNotFound  == "Maven executable (mvn) was not found on PATH."
GradleNotFound == "Gradle executable (gradle/gradlew) was not found on PATH."

\* The executable the settled request in slot s could not launch: java for the
\* decompiler of a read, the build tool of a scan; none otherwise.
FailedLaunch(s) ==
  IF req[s].op = "read"
    THEN IF req[s].local.cfr # Null /\ req[s].local.cfr[1].proc.kind = "enoent"
           THEN Some(req[s].spawned[1]) ELSE Null
  ELSE IF req[s].op = "scan"
    THEN IF req[s].ghost.proc # Null /\ req[s].ghost.proc[1].kind = "enoent"
           THEN Some(req[s].spawned[1]) ELSE Null
  ELSE Null

\* The message that names the executable.
NotFoundMessageFor(command) ==
  IF command = Java THEN JavaNotFound
  ELSE IF command = Mvn THEN MavenNotFound
  ELSE GradleNotFound

PairScanInputs ==
  {a \in ScanInputs : /\ a.projectPath \in {DirMS, DirG}
                      /\ a.query = <<>>
                      /\ a.configurations = <<>>
                      /\ ~a.excludeTransitive}

PairBuildOutcomes ==
  {p \in BuildOutcomes("maven") \cup BuildOutcomes("gradle") :
     p.kind = "close" /\ p.stderr = <<>>}

PairProcessOutcomes ==
  {p \in ProcessOutcomes : p.kind = "close" /\ p.stdout = OutText /\ p.stderr = EmptyText}

InitPair ==
  /\ projectFiles = BaseFiles
  /\ dependencyCache = EmptyMap
  /\ scratch = EmptyMap
  /\ req = [s \in {1, 2} |-> IdleReq]
  /\ populated = EmptyMap
  /\ fnIn = Null
  /\ fnOut = Null

NextPair ==
  \/ \E s \in DOMAIN req, a \in PairScanInputs : ScanBegin(s, a)
  \/ \E s \in DOMAIN req : ScanInvoke(s)
  \/ \E s \in DOMAIN req, p \in PairBuildOutcomes : ScanToolExit(s, p)
  \/ \E s \in DOMAIN req : ReadBegin(s, AppJar, <<"F">> \o DotClass, TRUE)
  \/ \E s \in DOMAIN req, p \in PairProcessOutcomes, f \in DecompiledFiles :
       CfrExit(s, p, f)
  \/ \E s \in DOMAIN req, p \in PairProcessOutcomes : JavapExit(s, p)
  \/ \E s \in DOMAIN req : Return(s)

SpecPair == InitPair /\ [][NextPair]_vars

\* The scan in slot s began while the cache held nothing for its key.
BeganUncached(s) ==
  /\ req[s].op = "scan"
  /\ req[s].local.projectType # "native"
  /\ req[s].local.cacheKey \notin req[s].ghost.keysAtBegin

\* Slots s and t hold scans of one key that both began before either stored
\* a result.
Overlapping(s, t) ==
  /\ s # t
  /\ BeganUncached(s)
  /\ BeganUncached(t)
  /\ req[s].local.cacheKey = req[t].local.cacheKey

\* C21: two scans of the same key that both begin before either completes
\* each miss the cache, each run the build tool once, and each that succeeds
\* reports that it was not a cache hit.
C21_ConcurrentScansBothRun ==
  \A s, t \in DOMAIN req :
    Overlapping(s, t) =>
      /\ req[s].tmp # Null
      /\ req[s].pc \in {"running", "done"} => Len(req[s].spawned) = 1
      /\ (req[s].pc = "done" /\ req[s].outcome[1].ok) =>
           ~req[s].outcome[1].value.cached

\* Both scans of one key have run the build tool and succeeded.
C21_Witness ==
  \E s, t \in Settled("scan") :
    /\ Overlapping(s, t)
    /\ req[s].outcome[1].ok /\ req[t].outcome[1].ok
    /\ Len(req[s].spawned) = 1 /\ Len(req[t].spawned) = 1
    /\ ~req[s].outcome[1].value.cached /\ ~req[t].outcome[1].value.cached

\* How many times command occurs in the processes a request spawned.
TimesSpawned(s, command) ==
  Cardinality({i \in 1..Len(req[s].spawned) : req[s].spawned[i] = command})

\* The process ended otherwise than by closing with exit code 0.
ProcessFailed(proc) == proc.kind # "close" \/ proc.code # 0

\* C22: no request runs an external tool twice: a scan spawns its build tool
\* at most once, a read spawns java at most once and javap at most once (and
\* javap only after java), and a request whose tool failed is settled as a
\* failure with nothing spawned after the failed process.
C22_NoInternalRetry ==
  \A s \in DOMAIN req :
    /\ req[s].op = "list" => req[s].spawned = <<>>
    /\ req[s].op = "scan" =>
         /\ Len(req[s].spawned) <= 1
         /\ \A i \in 1..Len(req[s].spawned) :
              req[s].spawned[i] \in {Mvn, Gradle, PathJoin(DirG, Gradlew)}
         /\ (req[s].ghost.proc # Null /\ ProcessFailed(req[s].ghost.proc[1])) =>
              /\ req[s].pc = "done"
              /\ ~req[s].outcome[1].ok
              /\ Len(req[s].spawned) = 1
    /\ req[s].op = "read" =>
         /\ req[s].spawned \in {<<>>, <<Java>>, <<Java, Javap>>}
         /\ TimesSpawned(s, Java) <= 1
         /\ TimesSpawned(s, Javap) <= 1
         /\ (req[s].local.cfr # Null /\ ProcessFailed(req[s].local.cfr[1].proc)) =>
              /\ req[s].pc = "done"
              /\ ~req[s].outcome[1].ok
              /\ req[s].spawned = <<Java>>

\* A read ran java and then javap, once each, and failed.
C22_Witness ==
  \E s \in Settled("read") :
    /\ req[s].spawned = <<Java, Javap>>
    /\ ~req[s].outcome[1].ok

(***************************************************************************)
(* The text functions of the scanner, each applied once to an input drawn  *)
(* from a bounded set: fnIn is the input, fnOut the result.                *)
(***************************************************************************)
InitText ==
  /\ fnIn = Null
  /\ fnOut = Null
  /\ projectFiles = BaseFiles
  /\ dependencyCache = EmptyMap
  /\ scratch = EmptyMap
  /\ req = [s \in {1} |-> IdleReq]
  /\ populated = EmptyMap

\* The components of a line of mvn dependency:list with outputAbsoluteArtifactFilename.
MavenComponents ==
  [groupId    : {<<"g">>, <<"o", "r", "g", ".", "x">>, <<"g", ":", "h">>},
   artifactId : {<<"a">>},
   type       : {<<"j", "a", "r">>, <<"p", "o", "m">>},
   classifier : {Null, Some(<<"k">>)},
   version    : {<<"1", ".", "0">>},
   scope      : {<<"c">>, <<"t", "e", "s", "t">>},
   path       : {<<"/", "m", "/", "a", ".", "j", "a", "r">>},
   prefix     : {<<>>, <<"[", "I", "N", "F", "O", "]", " ", " ">>, <<" ", " ", " ">>}]

\* group:artifact:type[:classifier]:version:scope:path
MavenLine(c) ==
  c.prefix \o
  Join(<<c.groupId, c.artifactId, c.type>>
         \o c.classifier \o <<c.version, c.scope, c.path>>, <<":">>)

\* parseMavenDependencyList on an output of one line.
ParseLine(c) ==
  /\ fnIn = Null
  /\ fnIn' = [fn |-> "parseMavenDependencyList", components |-> c, line |-> MavenLine(c)]
  /\ fnOut' = Some(parseMavenDependencyList(<<MavenLine(c)>>))
  /\ UNCHANGED <<projectFiles, dependencyCache, scratch, req, populated>>

\* Configuration names a caller may pass, and the lists made of them.
KeyNames == {<<"c">>, <<" ", "c">>, <<" ">>, <<"d">>, <<"K">>, <<KelvinSign>>}

KeyLists ==
  {<<>>} \cup {<<x>> : x \in KeyNames} \cup {<<x, y>> : x, y \in KeyNames}

KeyOptions ==
  [projectRoot : {DirM, DirG}, excludeTransitive : BOOLEAN,
   configurations : KeyLists, includeLogTail : BOOLEAN]

\* The options of the first scan of a pair: one root, both flags off.
KeyFirst ==
  {o \in KeyOptions : o.projectRoot = DirM /\ ~o.excludeTransitive /\ ~o.includeLogTail}

\* buildDependencyCacheKey and formatGroovyStringList for the options of two
\* scans.
BuildKeys(a, b) ==
  /\ fnIn = Null
  /\ fnIn' = [fn |-> "buildDependencyCacheKey", first |-> a, second |-> b]
  /\ fnOut' =
       Some([first  |-> buildDependencyCacheKey(a.projectRoot, a.excludeTransitive,
                                                a.configurations, a.includeLogTail),
             second |-> buildDependencyCacheKey(b.projectRoot, b.excludeTransitive,
                                                b.configurations, b.includeLogTail),
             firstAllowed  |-> formatGroovyStringList(a.configurations),
             secondAllowed |-> formatGroovyStringList(b.configurations)])
  /\ UNCHANGED <<projectFiles, dependencyCache, scratch, req, populated>>

\* Characters a configuration name may hold, and the names and lists made of
\* them.
GroovyChars == {"a", "\"", "\\", "$", "\n", "{", "}"}

GroovyNames ==
  {<<x>> : x \in GroovyChars} \cup {<<x, y>> : x, y \in GroovyChars}
    \cup {<<x, y, z>> : x, y, z \in GroovyChars}

GroovyLists ==
  {<<>>} \cup {<<x>> : x \in GroovyNames}
    \cup {<<x, y>> : x \in {<<"a">>, <<"\"">>}, y \in {<<"\\">>, <<"a">>, <<"a", "a">>}}

\* formatGroovyStringList on a list of names.
FormatList(values) ==
  /\ fnIn = Null
  /\ fnIn' = [fn |-> "formatGroovyStringList", values |-> values]
  /\ fnOut' = Some(formatGroovyStringList(values))
  /\ UNCHANGED <<projectFiles, dependencyCache, scratch, req, populated>>

\* One of the functions is applied, once.
NextText ==
  \/ fnIn = Null /\ \E a \in KeyFirst, b \in KeyOptions : BuildKeys(a, b)
  \/ fnIn = Null /\ \E values \in GroovyLists : FormatList(values)
  \/ fnIn = Null /\ \E c \in MavenComponents : ParseLine(c)

SpecText == InitText /\ [][NextText]_vars

\* The function applied in this state.
Applied(fn) == fnIn # Null /\ fnIn.fn = fn

\* C23: every line group:artifact:type[:classifier]:version:scope:path is
\* parsed into one record whose path, scope, version, classifier (null when
\* absent), type and artifact are those components and whose group is the
\* rest of the line, also when the group holds colons and there is no
\* classifier.
C23_MavenLineParsed ==
  Applied("parseMavenDependencyList") =>
    LET c == fnIn.components
    IN /\ Len(fnOut[1]) = 1
       /\ fnOut[1][1] = [groupId    |-> c.groupId,
                         artifactId |-> c.artifactId,
                         type       |-> c.type,
                         classifier |-> c.classifier,
                         version    |-> c.version,
                         scope      |-> c.scope,
                         path       |-> c.path]

\* C24: the cache key is a function of exactly the resolved root, the two
\* flags and the set of requested configuration names (trimmed, blanks
\* dropped): two scans agree on these exactly when their keys are equal, and
\* the allow-list of the Gradle script depends on the same set only.
C24_KeyIsIdentity ==
  Applied("buildDependencyCacheKey") =>
    LET a == fnIn.first
        b == fnIn.second
    IN /\ (ScanIdentity(a.projectRoot, a) = ScanIdentity(b.projectRoot, b))
            <=> (fnOut[1].first = fnOut[1].second)
       /\ ScanIdentity(DirM, a).names = ScanIdentity(DirM, b).names
            => fnOut[1].firstAllowed = fnOut[1].secondAllowed

\* What Groovy reads in the text after the opening bracket of a list of
\* double-quoted string literals: the strings the literals denote, or null
\* when the text is not such a list.  Inside a literal a backslash escapes the
\* next character and a quote ends the literal; a dollar sign starts an
\* interpolation and a line break ends the line inside the literal, so
\* neither is part of a plain literal.
RECURSIVE GroovyItems(_, _, _, _)
GroovyItems(text, mode, cur, acc) ==
  IF text = <<>> THEN (IF mode = "end" THEN Some(acc) ELSE Null)
  ELSE LET c == Head(text)
       IN CASE mode = "out" ->
                 IF c = "\"" THEN GroovyItems(Tail(text), "in", <<>>, acc)
                 ELSE IF c \in {",", " "} THEN GroovyItems(Tail(text), "out", <<>>, acc)
                 ELSE IF c = "]" THEN GroovyItems(Tail(text), "end", <<>>, acc)
                 ELSE Null
            [] mode = "in" ->
                 IF c = "\\"
                   THEN IF Len(text) > 1 /\ text[2] \in {"\\", "\"", "$"}
                          THEN GroovyItems(Tail(Tail(text)), "in", Append(cur, text[2]), acc)
                          ELSE Null
                 ELSE IF c = "\"" THEN GroovyItems(Tail(text), "out", <<>>, Append(acc, cur))
                 ELSE IF c \in {"$", "\n", "\r"} THEN Null
                 ELSE GroovyItems(Tail(text), "in", Append(cur, c), acc)
            [] OTHER -> Null

GroovyListLiteral(text) ==
  IF text # <<>> /\ Head(text) = "[" THEN GroovyItems(Tail(text), "out", <<>>, <<>>)
  ELSE Null

\* C25: for every list of configuration names the allow-list written into
\* the init script is a list of plain string literals that denote exactly the
\* normalised names: no name ends its literal, is interpolated or adds text
\* outside a literal.
C25_AllowListIsLiteral ==
  Applied("formatGroovyStringList") =>
    GroovyListLiteral(fnOut[1]) = Some(normalizeConfigurations(fnIn.values))

\* C26: the items of one listing denote pairwise different names: no two
\* paths are equal once a trailing separator is removed, also when the
\* archive holds an explicit entry for a directory and files beneath it.
C26_DistinctNames ==
  fnOut # Null =>
    \A i, j \in 1..Len(fnOut[1].entries) :
      i # j => Bare(fnOut[1].entries[i]).path # Bare(fnOut[1].entries[j]).path

(***************************************************************************)
(* Scans of one root while its marker files change: another program adds   *)
(* or removes pom.xml in the Gradle project's root at any moment.          *)
(***************************************************************************)
DriftInputs ==
  {a \in ScanInputs : /\ a.projectPath = DirG
                      /\ a.configurations = <<>>
                      /\ a.query \in {<<>>, <<"g", ":", "A">>}}

DriftMarker == PathJoin(DirG, PomXml)

InitDrift ==
  /\ projectFiles = BaseFiles
  /\ dependencyCache = EmptyMap
  /\ scratch = EmptyMap
  /\ req = [s \in {1} |-> IdleReq]
  /\ populated = EmptyMap
  /\ fnIn = Null
  /\ fnOut = Null

\* The marker file is created or deleted.
TouchMarker ==
  /\ projectFiles' = IF DriftMarker \in projectFiles
                       THEN projectFiles \ {DriftMarker}
                       ELSE projectFiles \cup {DriftMarker}
  /\ UNCHANGED <<dependencyCache, scratch, req, populated, fnIn, fnOut>>

NextDrift ==
  \/ \E s \in DOMAIN req, a \in DriftInputs : ScanBegin(s, a)
  \/ \E s \in DOMAIN req : ScanInvoke(s)
  \/ \E s \in DOMAIN req, p \in BuildOutcomes("maven") \cup BuildOutcomes("gradle") :
       ScanToolExit(s, p)
  \/ \E s \in DOMAIN req : Return(s)
  \/ TouchMarker

SpecDrift == InitDrift /\ [][NextDrift]_vars

\* The kind of the build tool a command belongs to.
ToolKind(command) == IF command = Mvn THEN "maven" ELSE "gradle"

\* C27: the kind reported by a successful scan is the kind of the build tool
\* whose output produced the returned list: the tool the scan ran on a miss,
\* the tool that produced the stored entry on a hit.
C27_KindMatchesProducer ==
  \A s \in Settled("scan") :
    req[s].outcome[1].ok =>
      LET v == req[s].outcome[1].value
      IN IF v.cached
           THEN v.projectType = dependencyCache[req[s].local.cacheKey].projectType
           ELSE v.projectType = ToolKind(req[s].spawned[1])

\* C28: a value the dependency cache holds for a key is never replaced: in
\* every step each key of the cache keeps the dependency list stored for it,
\* so every hit returns the list of the first successful scan of the key.
C28_ValueNeverReplaced ==
  [][\A k \in DOMAIN dependencyCache :
       /\ k \in DOMAIN dependencyCache'
       /\ dependencyCache'[k].dependencies = dependencyCache[k].dependencies]_vars

MismatchMessage == "Command requires another project type"

\* C29: with project files that do not change, no request fails because a
\* command requires another project type: a scan runs the tool of the kind
\* it detected (mvn, the project's gradlew or gradle), detection from the
\* detected root gives that kind again, and a read runs only java and javap,
\* which require no kind.
C29_NoMismatchOnStaticFiles ==
  \A s \in DOMAIN req :
    /\ (req[s].pc = "done" /\ ~req[s].outcome[1].ok) =>
         req[s].outcome[1].error.msg # MismatchMessage
    /\ req[s].op = "scan" =>
         \A i \in 1..Len(req[s].spawned) :
           /\ requiredProjectTypeForCommand(req[s].spawned[i]) = req[s].local.projectType
           /\ detectProjectType(req[s].local.projectRoot, projectFiles).type
                = req[s].local.projectType
    /\ req[s].op = "read" =>
         \A i \in 1..Len(req[s].spawned) :
           requiredProjectTypeForCommand(req[s].spawned[i]) = "any"

\* A scan of the Gradle project ran the project's wrapper and succeeded.
C29_Witness ==
  \E s \in Settled("scan") :
    /\ req[s].spawned = <<PathJoin(DirG, Gradlew)>>
    /\ req[s].outcome[1].ok

\* The request in slot s has made its scratch directory and has not yet
\* removed it.
InFlight(s) == req[s].pc \in {"invoke", "running", "cfr", "javap"}

\* C30: requests in flight never share a scratch location: each has a
\* directory of its own that still exists, with the Gradle init script in it
\* for a Gradle scan, whatever the other request has already cleaned up.
C30_ScratchNotShared ==
  \A s \in DOMAIN req :
    InFlight(s) =>
      /\ req[s].tmp # Null
      /\ req[s].tmp[1] \in DOMAIN scratch
      /\ (req[s].op = "scan" /\ req[s].local.projectType = "gradle") =>
           GradleInitScript(req[s].args.configurations, req[s].args.excludeTransitive)
             \in scratch[req[s].tmp[1]]
      /\ \A t \in DOMAIN req \ {s} : InFlight(t) => req[t].tmp # req[s].tmp

\* Two requests for the same thing overlapped: one has finished and removed
\* its directory, the other is still in flight with its own.
C30_Witness ==
  \E s, t \in DOMAIN req :
    /\ req[s].pc = "done" /\ InFlight(t)
    /\ req[s].op = req[t].op /\ req[s].args = req[t].args
    /\ req[s].tmp # Null /\ req[s].tmp # req[t].tmp
    /\ req[s].tmp[1] \notin DOMAIN scratch
    /\ req[t].tmp[1] \in DOMAIN scratch

=============================================================================
